---- MODULE Spec2Model ----
(***************************************************************************)
(* Model of the ATI ICP report parser (backend/app/services/ati_parser.py) *)
(* Text is a sequence of one-character strings; every regular expression   *)
(* of the source is an operator over such sequences.                       *)
(***************************************************************************)
EXTENDS Integers, Sequences, FiniteSets, TLC

VARIABLES
    pc,               \* position of the call in progress
    date_str,         \* argument of parse_date
    date_ret,         \* value returned by parse_date
    line,             \* argument of extract_value_and_status
    line_ret,         \* (value, status) returned by extract_value_and_status
    data,             \* argument of validate_parsed_data
    data_ret,         \* outcome of validate_parsed_data
    text,             \* text returned by extract_text_from_pdf
    pdf_path,         \* file name component of parse_ati_pdf's argument
    water_sections,   \* list of (water_type, section_text)
    shared_metadata,  \* dict of document-wide fields
    results,          \* list of dicts returned by parse_ati_pdf
    validated,        \* outcome of validate_parsed_data per returned dict
    raised,           \* exception that ended the call, "none" if none
    tool,             \* what running pdftotext does: "ok", "missing" or "failed"
    filename,         \* file.filename of the upload
    tmp_file,         \* the temporary file of the upload exists
    uploads,          \* the files in uploads/icp_tests
    db_tests,         \* the ICPTest objects added to the session
    db,               \* the committed rows of icp_tests
    response,         \* HTTP status of the request, 0 while there is none
    current_user,     \* id of the authenticated user of the request
    tank_id,          \* tank the request names
    test_id,          \* id of the row the request names, 0 if it names none
    requests,         \* number of requests received
    next_id,          \* stands for the fresh uuid4 of the next row
    returned          \* the rows in the body of the response

\* the variables of upload_icp_test_pdf
requestVars == <<current_user, tank_id, test_id, requests>>

uploadVars == <<tool, filename, tmp_file, uploads, db_tests, db, response,
                next_id, returned, requestVars>>

vars == <<pc, date_str, date_ret, line, line_ret, data, data_ret, text, pdf_path,
          water_sections, shared_metadata, results, validated, raised, uploadVars>>

(***************************************************************************)
(* Characters and strings                                                  *)
(***************************************************************************)
Digits == <<"0","1","2","3","4","5","6","7","8","9">>

LowerCase == <<"a","b","c","d","e","f","g","h","i","j","k","l","m",
               "n","o","p","q","r","s","t","u","v","w","x","y","z">>

UpperCase == <<"A","B","C","D","E","F","G","H","I","J","K","L","M",
               "N","O","P","Q","R","S","T","U","V","W","X","Y","Z">>

DigitSet == {Digits[k] : k \in 1..10}

DigitValue == [c \in DigitSet |-> (CHOOSE k \in 1..10 : Digits[k] = c) - 1]

IsDigit(c) == c \in DigitSet

DigitVal(c) == DigitValue[c]

\* \s of Python's re module, and the characters str.strip() removes
IsSpace(c) == c \in {" ", "\t", "\n", "\r", "\f"}

\* str.upper() on one character
UpperOf ==
    [c \in {LowerCase[k] : k \in 1..26} |->
        UpperCase[CHOOSE k \in 1..26 : LowerCase[k] = c]]

ToUpper(c) == IF c \in DOMAIN UpperOf THEN UpperOf[c] ELSE c

upper(s) == [k \in 1..Len(s) |-> ToUpper(s[k])]

\* least and greatest element; T is bound to the value of S, so that S is
\* evaluated once
Min(S) == CHOOSE x \in UNION {{m \in T : \A y \in T : m <= y} : T \in {S}} : TRUE

Max(S) == CHOOSE x \in UNION {{m \in T : \A y \in T : m >= y} : T \in {S}} : TRUE

\* the element of a set of one element
TheOne(S) == CHOOSE x \in S : TRUE

\* the least element of S as a set of at most one element
Leftmost(S) == UNION {{m \in T : \A y \in T : m <= y} : T \in {S}}

\* the greatest element of S as a set of at most one element
Rightmost(S) == UNION {{m \in T : \A y \in T : m >= y} : T \in {S}}

\* the tuples of S with the least first component
LeftmostMatch(S) == UNION {{h \in T : \A g \in T : h[1] <= g[1]} : T \in {S}}

\* int() of a string of digits
RECURSIVE IntUpTo(_, _)
IntUpTo(s, n) ==
    IF n = 0 THEN 0 ELSE 10 * IntUpTo(s, n - 1) + DigitVal(s[n])

IntOf(s) == IntUpTo(s, Len(s))

\* the literal lit stands in s at index i
MatchAt(s, i, lit) ==
    /\ i >= 1
    /\ i + Len(lit) - 1 <= Len(s)
    /\ \A k \in 1..Len(lit) : s[i + k - 1] = lit[k]

\* the same under re.IGNORECASE
MatchAtI(s, i, lit) ==
    /\ i >= 1
    /\ i + Len(lit) - 1 <= Len(s)
    /\ \A k \in 1..Len(lit) : ToUpper(s[i + k - 1]) = ToUpper(lit[k])

\* Python's "lit in s"
Contains(s, lit) == \E i \in 1..Len(s) : MatchAt(s, i, lit)

\* \d{n} at index i
DigitsAt(s, i, n) ==
    /\ i >= 1
    /\ i + n - 1 <= Len(s)
    /\ \A k \in 0..(n - 1) : IsDigit(s[i + k])

\* str.strip()
strip(s) ==
    LET keep == {i \in 1..Len(s) : ~IsSpace(s[i])}
    IN  IF keep = {} THEN <<>> ELSE SubSeq(s, Min(keep), Max(keep))

(***************************************************************************)
(* datetime.date                                                           *)
(***************************************************************************)
None == [kind |-> "None"]

\* the element of a set of at most one element, None for the empty set
OrNone(S) == TheOne(UNION {IF T = {} THEN {None} ELSE T : T \in {S}})

ValueError == [kind |-> "ValueError"]

\* a Python str as a dict value or return value
Str(s) == [kind |-> "str", chars |-> s]

IsLeap(y) == (y % 4 = 0 /\ y % 100 # 0) \/ y % 400 = 0

DaysInMonth(y, m) ==
    IF m = 2 THEN (IF IsLeap(y) THEN 29 ELSE 28)
    ELSE IF m \in {4, 6, 9, 11} THEN 30
    ELSE 31

\* date(year, month, day): the date, or ValueError for an impossible one
date(y, m, d) ==
    IF y \in 1..9999 /\ m \in 1..12 /\ d \in 1..DaysInMonth(y, m)
    THEN [kind |-> "date", year |-> y, month |-> m, day |-> d]
    ELSE ValueError

(***************************************************************************)
(* parse_date                                                              *)
(***************************************************************************)
\* re.search(r'(\d{4})-(\d{2})-(\d{2})', s): the start of the leftmost match,
\* as a set of at most one index
SearchYMD(s) ==
    Leftmost({i \in 1..Len(s) :
                 /\ DigitsAt(s, i, 4) /\ MatchAt(s, i + 4, <<"-">>)
                 /\ DigitsAt(s, i + 5, 2) /\ MatchAt(s, i + 7, <<"-">>)
                 /\ DigitsAt(s, i + 8, 2)})

\* re.search(r'(\d{1,2})<sep>(\d{1,2})<sep>(\d{4})', s): the leftmost match as
\* <<start, length of group 1, length of group 2>>, a set of at most one match
SearchSep(s, sep) ==
    LeftmostMatch({h \in (1..Len(s)) \X (1..2) \X (1..2) :
                      /\ DigitsAt(s, h[1], h[2])
                      /\ MatchAt(s, h[1] + h[2], <<sep>>)
                      /\ DigitsAt(s, h[1] + h[2] + 1, h[3])
                      /\ MatchAt(s, h[1] + h[2] + h[3] + 1, <<sep>>)
                      /\ DigitsAt(s, h[1] + h[2] + h[3] + 2, 4)})

\* the three groups of a SearchSep match as integers
SepGroups(s, h) ==
    <<IntOf(SubSeq(s, h[1], h[1] + h[2] - 1)),
      IntOf(SubSeq(s, h[1] + h[2] + 1, h[1] + h[2] + h[3])),
      IntOf(SubSeq(s, h[1] + h[2] + h[3] + 2, h[1] + h[2] + h[3] + 5))>>

\* lines 40-43: YYYY-MM-DD, date() not guarded: what the branch returns or
\* raises when the pattern matches, as a set of at most one outcome
TryYMD(s) ==
    {date(IntOf(SubSeq(s, i, i + 3)), IntOf(SubSeq(s, i + 5, i + 6)),
          IntOf(SubSeq(s, i + 8, i + 9))) : i \in SearchYMD(s)}

\* lines 45-52 with day and month exchanged
TryMDYDayFirst(s) ==
    {date(g[3], g[2], g[1]) : g \in {SepGroups(s, h) : h \in SearchSep(s, "/")}}
        \ {ValueError}

\* lines 45-52: MM/DD/YYYY, ValueError swallowed
TryMDY(s) ==
    {date(g[3], g[1], g[2]) : g \in {SepGroups(s, h) : h \in SearchSep(s, "/")}}
        \ {ValueError}

\* lines 54-61: DD.MM.YYYY, ValueError swallowed
TryDMY(s) ==
    {date(g[3], g[2], g[1]) : g \in {SepGroups(s, h) : h \in SearchSep(s, ".")}}
        \ {ValueError}

\* the outcome of the first branch that returns or raises, None if none does
FirstReturn(branches) ==
    TheOne({IF T[1] # {} THEN TheOne(T[1])
            ELSE IF T[2] # {} THEN TheOne(T[2])
            ELSE OrNone(T[3]) : T \in {branches}})

\* parse_date: a date, None, or ValueError when the call raises
parse_date(s) ==
    IF s = <<>> \/ strip(s) = <<"-">> THEN None
    ELSE FirstReturn(<<TryYMD(s), TryMDY(s), TryDMY(s)>>)

(***************************************************************************)
(* extract_value_and_status                                                *)
(***************************************************************************)
\* last index of the maximal run of digits that starts at i (i - 1 if empty)
DigitRunEnd(s, i) ==
    Min({j \in i..(Len(s) + 1) : j = Len(s) + 1 \/ ~IsDigit(s[j])}) - 1

\* a float as mant * 10^exp with mant not divisible by 10 (0 is 0 * 10^0)
RECURSIVE Float(_, _)
Float(m, e) ==
    IF m = 0 THEN [kind |-> "float", mant |-> 0, exp |-> 0]
    ELSE IF m % 10 = 0 THEN Float(m \div 10, e + 1)
    ELSE [kind |-> "float", mant |-> m, exp |-> e]

\* \.?\d* after the digits that end at a: the last index of the match
FractionEnd(s, a) ==
    IF a + 1 <= Len(s) /\ s[a + 1] = "." THEN DigitRunEnd(s, a + 2) ELSE a

\* the digits after the point, for an integer part ending at a and a
\* fraction ending at b
FractionDigits(s, a, b) == SubSeq(s, a + 2, b)

\* the digits \d+ of an exponent that start at q, with their sign: the
\* exponent, 0 when there is no digit and the group (?:e[+-]?\d+)? is empty
ExponentDigits(s, q, sign) ==
    TheOne({IF z < q THEN 0
            ELSE IF sign = "-" THEN 0 - IntOf(SubSeq(s, q, z))
            ELSE IntOf(SubSeq(s, q, z)) : z \in {DigitRunEnd(s, q)}})

\* (?:e[+-]?\d+)? at index p: the exponent, 0 if the group is empty
Exponent(s, p) ==
    IF p <= Len(s) /\ ToUpper(s[p]) = "E"
    THEN IF p + 1 <= Len(s) /\ s[p + 1] \in {"+", "-"}
         THEN ExponentDigits(s, p + 2, s[p + 1])
         ELSE ExponentDigits(s, p + 1, "+")
    ELSE 0

\* float() of the match of \d+\.?\d*(?:e[+-]?\d+)? that starts at digit i
NumberAt(s, i) ==
    TheOne(UNION {{Float(IntOf(SubSeq(s, i, a) \o FractionDigits(s, a, b)),
                         Exponent(s, b + 1) - Len(FractionDigits(s, a, b))) :
                      b \in {FractionEnd(s, a)}} :
                     a \in {DigitRunEnd(s, i)}})

\* re.search(r'(\d+\.?\d*(?:e[+-]?\d+)?)', s, re.IGNORECASE) and float() of
\* group 1: the number that starts at the leftmost digit of s, None if no digit
SearchValue(s) ==
    OrNone({NumberAt(s, i) : i \in Leftmost({n \in 1..Len(s) : IsDigit(s[n])})})

\* the status phrases of lines 84-89
CRITICALLY_LOW_ == <<"C","R","I","T","I","C","A","L","L","Y"," ","L","O","W">>

CRITICALLY_HIGH_ == <<"C","R","I","T","I","C","A","L","L","Y"," ","H","I","G","H">>

ABOVE_NORMAL_ == <<"A","B","O","V","E"," ","N","O","R","M","A","L">>

BELOW_NORMAL_ == <<"B","E","L","O","W"," ","N","O","R","M","A","L">>

SLIGHTLY_LOW_ == <<"S","L","I","G","H","T","L","Y"," ","L","O","W">>

SLIGHTLY_HIGH_ == <<"S","L","I","G","H","T","L","Y"," ","H","I","G","H">>

NORMAL_ == <<"N","O","R","M","A","L">>

NormalFirst ==
    <<NORMAL_,
      CRITICALLY_LOW_, CRITICALLY_HIGH_,
      ABOVE_NORMAL_, BELOW_NORMAL_,
      SLIGHTLY_LOW_, SLIGHTLY_HIGH_>>

\* lines 84-89: checked top to bottom
status_patterns ==
    <<CRITICALLY_LOW_, CRITICALLY_HIGH_,
      ABOVE_NORMAL_, BELOW_NORMAL_,
      SLIGHTLY_LOW_, SLIGHTLY_HIGH_,
      NORMAL_>>

\* pattern.replace(' ', '_')
replace_space(s) == [k \in 1..Len(s) |-> IF s[k] = " " THEN "_" ELSE s[k]]

\* lines 90-95: the first pattern of status_patterns found in line.upper()
SearchStatus(s) ==
    OrNone({Str(replace_space(status_patterns[k])) :
               k \in Leftmost(UNION {{n \in 1..Len(status_patterns) :
                                         Contains(u, status_patterns[n])} :
                                        u \in {upper(s)}})})

\* extract_value_and_status: <<value, status>>
extract_value_and_status(s) == <<SearchValue(s), SearchStatus(s)>>

(***************************************************************************)
(* Dicts: functions from field names to values                             *)
(***************************************************************************)
EmptyDict == <<>>

\* d[k] = v
Put(d, k, v) == (k :> v) @@ d

\* the dict of a set of <<key, value>> items with distinct keys
DictOf(items) ==
    TheOne({[f \in {x[1] : x \in T} |-> TheOne({x[2] : x \in {y \in T : y[1] = f}})] :
               T \in {items}})

\* the elements of a set of integers in ascending order
Ordered(S) ==
    TheOne({[k \in 1..Cardinality(T) |->
                TheOne({x \in T : Cardinality({y \in T : y < x}) = k - 1})] :
               T \in {S}})

IntVal(n) == [kind |-> "int", val |-> n]

List(items) == [kind |-> "list", items |-> items]

(***************************************************************************)
(* Regular-expression pieces shared by parse_ati_pdf                       *)
(***************************************************************************)
\* the class [:\s]
IsSep(c) == c = ":" \/ IsSpace(c)

\* last index of the maximal run of [:\s] that starts at i (i - 1 if empty)
SepRunEnd(s, i) ==
    Min({j \in i..(Len(s) + 1) : j = Len(s) + 1 \/ ~IsSep(s[j])}) - 1

\* last index of the maximal run of \s that starts at i (i - 1 if empty)
SpaceRunEnd(s, i) ==
    Min({j \in i..(Len(s) + 1) : j = Len(s) + 1 \/ ~IsSpace(s[j])}) - 1

\* last index of the line that holds index i: section_text.find('\n', i) - 1
LineEnd(s, i) ==
    Min({j \in i..(Len(s) + 1) : j = Len(s) + 1 \/ s[j] = "\n"}) - 1

\* ^ under re.MULTILINE matches at index i
LineStart(s, i) == i = 1 \/ s[i - 1] = "\n"

\* [:\s]+(\d+) after a label that ends before index j: the start of group 1,
\* as a set of at most one index
DigitsAfterLabel(s, j) ==
    {e + 1 : e \in {n \in {SepRunEnd(s, j)} :
                       n >= j /\ n + 1 <= Len(s) /\ IsDigit(s[n + 1])}}

\* re.search(rf'(?:{labels})[:\s]+(\d+)', s, re.IGNORECASE): group 1 of the
\* leftmost match, None if there is none
SearchLabelDigits(s, labels) ==
    OrNone({Str(SubSeq(s, h[2], DigitRunEnd(s, h[2]))) :
               h \in LeftmostMatch(
                        UNION {{<<x[1], g>> : g \in DigitsAfterLabel(s, x[1] + Len(x[2]))} :
                                  x \in {y \in (1..Len(s)) \X labels :
                                            MatchAtI(s, y[1], y[2])}})})

\* [:\s]+([^\n]+) after a label that ends before index j: the start of group 1,
\* as a set of at most one index. [:\s]+ is greedy and gives back characters
\* until a character other than "\n" follows it.
RestAfterLabel(s, j) ==
    Rightmost({g \in (j + 1)..(SepRunEnd(s, j) + 1) : g <= Len(s) /\ s[g] # "\n"})

\* re.search(rf'{label}[:\s]+([^\n]+)', s, re.IGNORECASE): group 1 of the
\* leftmost match, None if there is none
SearchLabelRest(s, label) ==
    OrNone({Str(SubSeq(s, h[2], LineEnd(s, h[2]))) :
               h \in LeftmostMatch(
                        UNION {{<<i, g>> : g \in RestAfterLabel(s, i + Len(label))} :
                                  i \in {n \in 1..Len(s) : MatchAtI(s, n, label)}})})

(***************************************************************************)
(* parse_ati_pdf: water sections (lines 118-133)                           *)
(***************************************************************************)
ResultsOf == <<"R","e","s","u","l","t","s"," ","o","f"," ">>

SaltHeader == <<"R","e","s","u","l","t","s"," ","o","f"," ","S","a","l","t"," ","w","a","t","e","r">>

OsmosisHeader == <<"R","e","s","u","l","t","s"," ","o","f"," ","O","s","m","o","s","i","s"," ","w","a","t","e","r">>

ROHeader == <<"R","e","s","u","l","t","s"," ","o","f"," ","R","O"," ","w","a","t","e","r">>

SALTWATER == Str(<<"s","a","l","t","w","a","t","e","r">>)

RO_WATER == Str(<<"r","o","_","w","a","t","e","r">>)

LAB_NAME == Str(<<"A","T","I"," ","A","q","u","a","r","i","s","t","i","k">>)

\* the lookahead (?=Results of |$) holds at index q; without re.MULTILINE $
\* matches at the end of the text and before a newline that ends the text
SectionStop(s, q) ==
    \/ q = Len(s) + 1
    \/ q = Len(s) /\ s[q] = "\n"
    \/ MatchAtI(s, q, ResultsOf)

\* a span that runs from the header to the end of the text
SectionSpanToEnd(s, h, n) == SubSeq(s, h, Len(s))

\* match.group(0) of a header of length n found at h, with (.*?) lazy
SectionSpan(s, h, n) ==
    SubSeq(s, h, Min({q \in (h + n)..(Len(s) + 1) : SectionStop(s, q)}) - 1)

\* line 122: the section of the leftmost salt water header, as a list of at
\* most one (water_type, section_text)
SearchSaltWater(s) ==
    UNION {IF T = {} THEN {<<>>} ELSE {<<x>> : x \in T} :
              T \in {{[water_type |-> SALTWATER,
                       section_text |-> SectionSpan(s, i, Len(SaltHeader))] :
                         i \in Leftmost({n \in 1..Len(s) : MatchAtI(s, n, SaltHeader)})}}}

\* line 123: the section of the leftmost Osmosis or RO header, as a list of
\* at most one (water_type, section_text)
SearchROWater(s) ==
    UNION {IF T = {} THEN {<<>>} ELSE {<<x>> : x \in T} :
              T \in {{[water_type |-> RO_WATER,
                       section_text |-> SectionSpan(s, h[1], Len(h[2]))] :
                         h \in LeftmostMatch({x \in (1..Len(s)) \X {OsmosisHeader, ROHeader} :
                                                 MatchAtI(s, x[1], x[2])})}}}

\* lines 119-133: the list of (water_type, section_text), salt water first,
\* the whole text as salt water when no header is found
DetectSections(s) ==
    TheOne({IF found = <<>>
            THEN <<[water_type |-> SALTWATER, section_text |-> s]>>
            ELSE found :
               found \in {TheOne(SearchSaltWater(s)) \o TheOne(SearchROWater(s))}})

(***************************************************************************)
(* parse_ati_pdf: shared metadata (lines 135-170)                          *)
(***************************************************************************)
\* lines 145-152, in the order of the loop
date_patterns ==
    <<[label |-> <<"T","e","s","t"," ","D","a","t","e">>, field |-> "test_date"],
      [label |-> <<"C","r","e","a","t","e","d">>, field |-> "sample_date"],
      [label |-> <<"S","a","m","p","l","e"," ","D","a","t","e">>, field |-> "sample_date"],
      [label |-> <<"A","r","r","i","v","e","d"," ","i","n"," ","t","h","e"," ","l","a","b","o","r","a","t","o","r","y">>, field |-> "received_date"],
      [label |-> <<"R","e","c","e","i","v","e","d">>, field |-> "received_date"],
      [label |-> <<"E","v","a","l","u","a","t","e","d">>, field |-> "evaluated_date"]>>

\* lines 138-141
PutTestId(md, s) ==
    TheOne({IF g = None THEN md ELSE Put(md, "test_id", g) :
               g \in {SearchLabelDigits(s, {<<"T","e","s","t"," ","I","D">>, <<"B","a","r","c","o","d","e">>})}})

\* lines 155-157: parse_date of the text after the label, None if the label
\* is not found
LabelledDate(s, label) ==
    TheOne({IF g = None THEN None ELSE parse_date(g.chars) :
               g \in {SearchLabelRest(s, label)}})

\* lines 154-159 from pattern k on: [raised, md]; parse_date may raise
RECURSIVE PutDates(_, _, _)
PutDates(md, s, k) ==
    IF k > Len(date_patterns) THEN [raised |-> "none", md |-> md]
    ELSE TheOne({IF parsed_date = ValueError
                 THEN [raised |-> "ValueError", md |-> md]
                 ELSE PutDates(IF parsed_date = None THEN md
                               ELSE Put(md, date_patterns[k].field, parsed_date),
                               s, k + 1) :
                    parsed_date \in {LabelledDate(s, date_patterns[k].label)}})

\* lines 161-163 without the test for a test_date already set
PutEvaluatedOverTestDate(md) ==
    IF "evaluated_date" \in DOMAIN md
    THEN Put(md, "test_date", md["evaluated_date"])
    ELSE md

\* lines 161-163
PutEvaluatedAsTestDate(md) ==
    IF "test_date" \notin DOMAIN md /\ "evaluated_date" \in DOMAIN md
    THEN Put(md, "test_date", md["evaluated_date"])
    ELSE md

\* lines 165-170: the file name is asked only when test_date is still unset
PutFilenameDate(md, name) ==
    IF "test_date" \in DOMAIN md THEN [raised |-> "none", md |-> md]
    ELSE TheOne({IF ds = {} THEN [raised |-> "none", md |-> md]
                 ELSE IF ds = {ValueError} THEN [raised |-> "ValueError", md |-> md]
                 ELSE [raised |-> "none", md |-> Put(md, "test_date", TheOne(ds))] :
                    ds \in {{parse_date(SubSeq(name, i, i + 9)) :
                                i \in SearchYMD(name)}}})

\* lines 135-170: [raised, md]
ExtractSharedMetadata(s, name) ==
    TheOne({IF dated.raised # "none" THEN dated
            ELSE PutFilenameDate(PutEvaluatedAsTestDate(dated.md), name) :
               dated \in {PutDates(PutTestId(EmptyDict, s), s, 1)}})

(***************************************************************************)
(* parse_ati_pdf: one section (lines 174-314)                              *)
(***************************************************************************)
\* extract_score (lines 100-106)
extract_score(s, score_name) ==
    TheOne({IF g = None THEN None ELSE IntVal(IntOf(g.chars)) :
               g \in {SearchLabelDigits(s, {score_name})}})

\* lines 182-188
score_mappings ==
    <<[label |-> <<"M","a","j","o","r"," ","E","l","e","m","e","n","t","s">>, field |-> "score_major_elements"],
      [label |-> <<"M","i","n","o","r"," ","E","l","e","m","e","n","t","s">>, field |-> "score_minor_elements"],
      [label |-> <<"P","o","l","l","u","t","a","n","t","s">>, field |-> "score_pollutants"],
      [label |-> <<"B","a","s","e"," ","E","l","e","m","e","n","t","s">>, field |-> "score_base_elements"],
      [label |-> <<"O","v","e","r","a","l","l">>, field |-> "score_overall"]>>

\* lines 190-193: the items the loop over score_mappings stores
ScoreItems(s) ==
    UNION {{<<score_mappings[k].field, score>> :
               score \in {extract_score(s, score_mappings[k].label)} \ {None}} :
              k \in 1..Len(score_mappings)}

\* lines 197-250: ^sym\s+ followed by tail (only Sal. has one)
elements ==
    <<
      [sym |-> <<"S","a","l",".">>, tail |-> <<"t","o","t","a","l">>, value_field |-> "salinity", status_field |-> "salinity_status"],
      [sym |-> <<"K","H">>, tail |-> <<>>, value_field |-> "kh", status_field |-> "kh_status"],
      [sym |-> <<"C","l">>, tail |-> <<>>, value_field |-> "cl", status_field |-> "cl_status"],
      [sym |-> <<"N","a">>, tail |-> <<>>, value_field |-> "na", status_field |-> "na_status"],
      [sym |-> <<"M","g">>, tail |-> <<>>, value_field |-> "mg", status_field |-> "mg_status"],
      [sym |-> <<"S">>, tail |-> <<>>, value_field |-> "s", status_field |-> "s_status"],
      [sym |-> <<"C","a">>, tail |-> <<>>, value_field |-> "ca", status_field |-> "ca_status"],
      [sym |-> <<"K">>, tail |-> <<>>, value_field |-> "k", status_field |-> "k_status"],
      [sym |-> <<"B","r">>, tail |-> <<>>, value_field |-> "br", status_field |-> "br_status"],
      [sym |-> <<"S","r">>, tail |-> <<>>, value_field |-> "sr", status_field |-> "sr_status"],
      [sym |-> <<"B">>, tail |-> <<>>, value_field |-> "b", status_field |-> "b_status"],
      [sym |-> <<"F">>, tail |-> <<>>, value_field |-> "f", status_field |-> "f_status"],
      [sym |-> <<"L","i">>, tail |-> <<>>, value_field |-> "li", status_field |-> "li_status"],
      [sym |-> <<"S","i">>, tail |-> <<>>, value_field |-> "si", status_field |-> "si_status"],
      [sym |-> <<"I">>, tail |-> <<>>, value_field |-> "i", status_field |-> "i_status"],
      [sym |-> <<"B","a">>, tail |-> <<>>, value_field |-> "ba", status_field |-> "ba_status"],
      [sym |-> <<"M","o">>, tail |-> <<>>, value_field |-> "mo", status_field |-> "mo_status"],
      [sym |-> <<"N","i">>, tail |-> <<>>, value_field |-> "ni", status_field |-> "ni_status"],
      [sym |-> <<"M","n">>, tail |-> <<>>, value_field |-> "mn", status_field |-> "mn_status"],
      [sym |-> <<"A","s">>, tail |-> <<>>, value_field |-> "as", status_field |-> "as_status"],
      [sym |-> <<"B","e">>, tail |-> <<>>, value_field |-> "be", status_field |-> "be_status"],
      [sym |-> <<"C","r">>, tail |-> <<>>, value_field |-> "cr", status_field |-> "cr_status"],
      [sym |-> <<"C","o">>, tail |-> <<>>, value_field |-> "co", status_field |-> "co_status"],
      [sym |-> <<"F","e">>, tail |-> <<>>, value_field |-> "fe", status_field |-> "fe_status"],
      [sym |-> <<"C","u">>, tail |-> <<>>, value_field |-> "cu", status_field |-> "cu_status"],
      [sym |-> <<"S","e">>, tail |-> <<>>, value_field |-> "se", status_field |-> "se_status"],
      [sym |-> <<"A","g">>, tail |-> <<>>, value_field |-> "ag", status_field |-> "ag_status"],
      [sym |-> <<"V">>, tail |-> <<>>, value_field |-> "v", status_field |-> "v_status"],
      [sym |-> <<"Z","n">>, tail |-> <<>>, value_field |-> "zn", status_field |-> "zn_status"],
      [sym |-> <<"S","n">>, tail |-> <<>>, value_field |-> "sn", status_field |-> "sn_status"],
      [sym |-> <<"N","O","3">>, tail |-> <<>>, value_field |-> "no3", status_field |-> "no3_status"],
      [sym |-> <<"P">>, tail |-> <<>>, value_field |-> "p", status_field |-> "p_status"],
      [sym |-> <<"P","O","4">>, tail |-> <<>>, value_field |-> "po4", status_field |-> "po4_status"],
      [sym |-> <<"A","l">>, tail |-> <<>>, value_field |-> "al", status_field |-> "al_status"],
      [sym |-> <<"S","b">>, tail |-> <<>>, value_field |-> "sb", status_field |-> "sb_status"],
      [sym |-> <<"B","i">>, tail |-> <<>>, value_field |-> "bi", status_field |-> "bi_status"],
      [sym |-> <<"P","b">>, tail |-> <<>>, value_field |-> "pb", status_field |-> "pb_status"],
      [sym |-> <<"C","d">>, tail |-> <<>>, value_field |-> "cd", status_field |-> "cd_status"],
      [sym |-> <<"L","a">>, tail |-> <<>>, value_field |-> "la", status_field |-> "la_status"],
      [sym |-> <<"T","l">>, tail |-> <<>>, value_field |-> "tl", status_field |-> "tl_status"],
      [sym |-> <<"T","i">>, tail |-> <<>>, value_field |-> "ti", status_field |-> "ti_status"],
      [sym |-> <<"W">>, tail |-> <<>>, value_field |-> "w", status_field |-> "w_status"],
      [sym |-> <<"H","g">>, tail |-> <<>>, value_field |-> "hg", status_field |-> "hg_status"]
    >>

\* the pattern of element e without \s+ and the tail
ElementAtPrefix(s, i, e) ==
    /\ LineStart(s, i)
    /\ MatchAt(s, i, e.sym)

\* the pattern of element e matches at index i of s
ElementAt(s, i, e) ==
    /\ LineStart(s, i)
    /\ MatchAt(s, i, e.sym)
    /\ SpaceRunEnd(s, i + Len(e.sym)) >= i + Len(e.sym)
    /\ MatchAt(s, SpaceRunEnd(s, i + Len(e.sym)) + 1, e.tail)

\* the start of the last match of element e
SearchElementLast(s, e) == Rightmost({i \in 1..Len(s) : ElementAt(s, i, e)})

\* lines 254-255: the start of the leftmost match of element e, as a set of
\* at most one index
SearchElement(s, e) == Leftmost({i \in 1..Len(s) : ElementAt(s, i, e)})

\* lines 259-263: the line that starts at the match
ElementLine(s, e) == {SubSeq(s, i, LineEnd(s, i)) : i \in SearchElement(s, e)}

NotDetected == <<"-","-","-">>

\* lines 265-277 with the marker ignored
ReadLineIgnoringMarker(ln) == extract_value_and_status(ln)

\* lines 265-277: <<value, status>> to store for a matched line
ReadLine(ln) ==
    TheOne({IF Contains(ln, NotDetected) THEN <<None, r[2]>> ELSE r :
               r \in {extract_value_and_status(ln)}})

\* the items with the guards 'is not None' left out
ReadingItemsWithNone(e, r) ==
    {<<e.value_field, r[1]>>, <<e.status_field, r[2]>>}

\* lines 270-277: the items stored for element e read as r
ReadingItems(e, r) ==
    {<<e.value_field, v>> : v \in {r[1]} \ {None}}
        \cup {<<e.status_field, v>> : v \in {r[2]} \ {None}}

\* lines 252-277: the items the loop over elements stores
ElementItems(s) ==
    UNION {UNION {ReadingItems(elements[k], ReadLine(ln)) :
                     ln \in ElementLine(s, elements[k])} :
              k \in 1..Len(elements)}

\* s?: after a label that ends before index j: the index of the colon, as a
\* set of at most one index
BlockColon(s, j) ==
    IF MatchAtI(s, j, <<"s", ":">>) THEN {j + 1}
    ELSE IF MatchAt(s, j, <<":">>) THEN {j}
    ELSE {}

\* (.+?)(?=\n\n|\Z) after the colon at index c: the last index of group 1
BlockEnd(s, c) ==
    Min({j \in (c + 2)..(Len(s) + 1) :
            j = Len(s) + 1 \/ MatchAt(s, j, <<"\n", "\n">>)}) - 1

\* re.search(rf'{label}s?:(.+?)(?=\n\n|\Z)', s, re.IGNORECASE | re.DOTALL):
\* group 1 of the leftmost match, None if there is none
SearchBlock(s, label) ==
    OrNone({Str(SubSeq(s, h[2] + 1, BlockEnd(s, h[2]))) :
               h \in LeftmostMatch(
                        UNION {{<<i, c>> : c \in {n \in BlockColon(s, i + Len(label)) :
                                                    n + 1 <= Len(s)}} :
                                  i \in {n \in 1..Len(s) : MatchAtI(s, n, label)}})})

\* str.split('\n')
split_lines(s) ==
    TheOne({[k \in 1..Len(P) |-> SubSeq(s, P[k], LineEnd(s, P[k]))] :
               P \in {Ordered({1} \cup {j + 1 : j \in {n \in 1..Len(s) : s[n] = "\n"}})}})

\* lines 291-294: the stripped lines that are not empty and start with no dash
RecommendationItems(ls) ==
    TheOne({[k \in 1..Len(kept) |-> [text |-> Str(kept[k])]] :
               kept \in {SelectSeq([k \in 1..Len(ls) |-> strip(ls[k])],
                                   LAMBDA ln : ln # <<>> /\ ln[1] # "-")}})

\* lines 279-297: the item stored for the recommendations
PutRecommendations(s) ==
    {<<"recommendations", List(recommendations)>> :
        recommendations \in
            UNION {{RecommendationItems(ls) : ls \in {split_lines(strip(g.chars))}} :
                      g \in {SearchBlock(s, <<"R","e","c","o","m","m","e","n","d","a","t","i","o","n">>)}
                                \ {None}}
                \ {<<>>}}

\* lines 299-307: the item stored for the dosing instructions
PutDosing(s) ==
    {<<"dosing_instructions", [text |-> Str(strip(g.chars))]>> :
        g \in {SearchBlock(s, <<"D","o","s","i","n","g"," ","I","n","s","t","r","u","c","t","i","o","n">>)}
                  \ {None}}

\* the dict of one section with the test id read from the section's own text
SectionDataOwnTestId(section, md) ==
    TheOne({DictOf(ScoreItems(s) \cup ElementItems(s)
                       \cup PutRecommendations(s) \cup PutDosing(s))
                @@ PutTestId([f \in DOMAIN md \ {"test_id"} |-> md[f]], s)
                @@ ("lab_name" :> LAB_NAME) @@ ("water_type" :> section.water_type) :
               s \in {section.section_text}})

\* lines 175-307: the dict of one section
SectionData(section, md) ==
    TheOne({DictOf(ScoreItems(s) \cup ElementItems(s)
                       \cup PutRecommendations(s) \cup PutDosing(s))
                @@ md @@ ("lab_name" :> LAB_NAME) @@ ("water_type" :> section.water_type) :
               s \in {section.section_text}})

(***************************************************************************)
(* validate_parsed_data (lines 319-338)                                    *)
(***************************************************************************)
required == {"lab_name", "test_date"}

element_fields ==
    {"ca", "mg", "kh", "salinity", "li", "si", "al", "no3", "po4",
     "ca_status", "mg_status", "kh_status", "salinity_status",
     "li_status", "si_status", "al_status", "no3_status", "po4_status"}

MissingRequired == "ATIParserError: Missing required fields"

NoElementData == "ATIParserError: No element data could be extracted from PDF"

NoTestDate == "ATIParserError: Could not extract test date from PDF"

\* validation without the required-field check
ValidateDataOnly(d) ==
    IF \A f \in element_fields : f \notin DOMAIN d THEN NoElementData
    ELSE "none"

\* validation without the element-data check
ValidateRequiredOnly(d) ==
    IF \E f \in required : f \notin DOMAIN d THEN MissingRequired
    ELSE "none"

\* the exception validate_parsed_data(d) raises, "none" if it returns
validate_parsed_data(d) ==
    IF \E f \in required : f \notin DOMAIN d THEN MissingRequired
    ELSE IF \A f \in element_fields : f \notin DOMAIN d THEN NoElementData
    ELSE "none"

(***************************************************************************)
(* Values shared by the specifications                                     *)
(***************************************************************************)
Unset == [kind |-> "unset"]

\* the variables of parse_ati_pdf while another function is the one called
IdleParse ==
    /\ text = <<>>
    /\ pdf_path = <<>>
    /\ water_sections = <<>>
    /\ shared_metadata = <<>>
    /\ results = <<>>
    /\ validated = <<>>

IdleDate == date_str = <<>> /\ date_ret = Unset

IdleLine == line = <<>> /\ line_ret = Unset

\* validate_parsed_data has not been called
IdleData == data = <<>> /\ data_ret = "unset"

\* no upload is in progress
IdleUpload ==
    /\ tool = "ok"
    /\ filename = <<>>
    /\ tmp_file = FALSE
    /\ uploads = {}
    /\ db_tests = <<>>
    /\ db = <<>>
    /\ response = 0
    /\ current_user = "user-1"
    /\ tank_id = "tank-1"
    /\ test_id = 0
    /\ requests = 0
    /\ next_id = 1
    /\ returned = {}

(***************************************************************************)
(* Calls of parse_date                                                     *)
(***************************************************************************)
Pad2(n) == <<Digits[(n \div 10) + 1], Digits[(n % 10) + 1]>>

Plain(n) == IF n < 10 THEN <<Digits[n + 1]>> ELSE Pad2(n)

Pad4(n) == Pad2(n \div 100) \o Pad2(n % 100)

FormatYMD(y, m, d) == Pad4(y) \o <<"-">> \o Pad2(m) \o <<"-">> \o Pad2(d)

FormatSep(a, b, y, sep, pad) ==
    (IF pad THEN Pad2(a) ELSE Plain(a)) \o <<sep>>
        \o (IF pad THEN Pad2(b) ELSE Plain(b)) \o <<sep>> \o Pad4(y)

DateYears == {2026, 2024, 0}

DateFields == {0, 1, 2, 7, 12, 13, 14, 29, 30, 31, 99}

DateSingles ==
    UNION {{FormatYMD(y, a, b)} \cup
           {FormatSep(a, b, y, sep, pad) : sep \in {"/", "."}, pad \in BOOLEAN} :
              y \in DateYears, a \in DateFields, b \in DateFields}

DatePairs ==
    {x \o <<" ">> \o y :
        x \in {FormatSep(14, 40, 2026, "/", TRUE), FormatYMD(2026, 14, 1),
               FormatSep(99, 99, 2026, ".", TRUE), FormatSep(2, 30, 2026, "/", TRUE)},
        y \in {FormatSep(7, 2, 2026, ".", TRUE), FormatSep(2, 7, 2026, "/", TRUE),
               FormatYMD(2026, 2, 7)}}

DateSpecials == {<<>>, <<"-">>, <<" ","-"," ">>, <<"n","/","a">>}

DateInputs == DateSingles \cup DatePairs \cup DateSpecials

InitDate ==
    /\ pc = "parse_date"
    /\ date_str \in DateInputs
    /\ date_ret = Unset
    /\ raised = "none"
    /\ IdleLine /\ IdleData /\ IdleParse /\ IdleUpload

\* one call parse_date(date_str)
CallParseDate ==
    /\ pc = "parse_date"
    /\ \E r \in {parse_date(date_str)} :
          IF r = ValueError
          THEN pc' = "raised" /\ raised' = "ValueError" /\ date_ret' = date_ret
          ELSE pc' = "returned" /\ raised' = raised /\ date_ret' = r
    /\ UNCHANGED <<date_str, line, line_ret, data, data_ret, text, pdf_path,
                   water_sections, shared_metadata, results, validated>>
    /\ UNCHANGED uploadVars

NextDate == CallParseDate

SpecDate == InitDate /\ [][NextDate]_vars

(***************************************************************************)
(* Calls of extract_value_and_status                                       *)
(***************************************************************************)
MaxPhrases == 2

PhraseBank ==
    {CRITICALLY_LOW_, CRITICALLY_HIGH_, ABOVE_NORMAL_, BELOW_NORMAL_,
     SLIGHTLY_LOW_, SLIGHTLY_HIGH_, NORMAL_,
     <<"L","O","W">>, <<"n","o","r","m","a","l">>, <<"A","b","o","v","e"," ","N","o","r","m","a","l">>, <<"N","O","R","M">>}

LinePrefixes ==
    {<<>>, <<"B"," ","1","e","5">>, <<"F","e"," ",".","5">>, <<"K"," ","3",".","2","E","-","2","x">>, <<"Z","n"," ","1","2","."," ","e","3">>, <<"N","O","3"," ","2",".","5">>, <<"V"," ","7","e","+">>,
     <<"C","a"," ","8",".","5"," ","m","g","/","l">>, <<"C","a"," ","-","-","-"," ","m","g","/","l">>}

RECURSIVE JoinWords(_)
JoinWords(ws) ==
    IF ws = <<>> THEN <<>> ELSE <<" ">> \o Head(ws) \o JoinWords(Tail(ws))

LineInputs ==
    {p \o JoinWords(ws) :
        p \in LinePrefixes,
        ws \in UNION {[1..n -> PhraseBank] : n \in 0..MaxPhrases}}

InitLine ==
    /\ pc = "extract_value_and_status"
    /\ line \in LineInputs
    /\ line_ret = Unset
    /\ raised = "none"
    /\ IdleDate /\ IdleData /\ IdleParse /\ IdleUpload

\* one call extract_value_and_status(line)
CallExtract ==
    /\ pc = "extract_value_and_status"
    /\ pc' = "returned"
    /\ line_ret' = extract_value_and_status(line)
    /\ UNCHANGED <<date_str, date_ret, line, data, data_ret, text, pdf_path,
                   water_sections, shared_metadata, results, validated, raised>>
    /\ UNCHANGED uploadVars

NextLine == CallExtract

SpecLine == InitLine /\ [][NextLine]_vars

(***************************************************************************)
(* Calls of parse_ati_pdf, each returned dict then handed to               *)
(* validate_parsed_data as the upload endpoint does                        *)
(***************************************************************************)
MaxSectionLines == 4

MaxElementLines == 3

RECURSIVE JoinLines(_)
JoinLines(ls) ==
    IF ls = <<>> THEN <<>> ELSE Head(ls) \o <<"\n">> \o JoinLines(Tail(ls))

\* the texts of at most max lines taken from bank
Texts(bank, max) ==
    {JoinLines(ls) : ls \in UNION {[1..n -> bank] : n \in 0..max}}

\* the state of parse_ati_pdf before its first step
ParseReset ==
    /\ water_sections = <<>>
    /\ shared_metadata = EmptyDict
    /\ results = <<>>
    /\ validated = <<>>
    /\ raised = "none"
    /\ IdleDate /\ IdleLine /\ IdleData

ParseStart ==
    /\ IdleUpload
    /\ pc = "segment"
    /\ ParseReset

\* lines 118-133
DetectWaterSections ==
    /\ pc = "segment"
    /\ water_sections' = DetectSections(text)
    /\ pc' = "metadata"
    /\ UNCHANGED <<date_str, date_ret, line, line_ret, data, data_ret, text,
                   pdf_path, shared_metadata, results, validated, raised>>
    /\ UNCHANGED uploadVars

\* lines 135-170
ExtractMetadata ==
    /\ pc = "metadata"
    /\ \E r \in {ExtractSharedMetadata(text, pdf_path)} :
          IF r.raised # "none"
          THEN pc' = "raised" /\ raised' = r.raised
                   /\ shared_metadata' = shared_metadata
          ELSE pc' = "sections" /\ raised' = raised /\ shared_metadata' = r.md
    /\ UNCHANGED <<date_str, date_ret, line, line_ret, data, data_ret, text,
                   pdf_path, water_sections, results, validated>>
    /\ UNCHANGED uploadVars

\* lines 174-316: one turn of the loop over water_sections, and the return
ProcessSection ==
    /\ pc = "sections"
    /\ Len(results) < Len(water_sections)
    /\ \E d \in {SectionData(water_sections[Len(results) + 1], shared_metadata)} :
          IF "test_date" \notin DOMAIN d
          THEN pc' = "raised" /\ raised' = NoTestDate /\ results' = results
          ELSE /\ results' = Append(results, d)
               /\ raised' = raised
               /\ pc' = IF Len(results) + 1 = Len(water_sections)
                        THEN "returned" ELSE "sections"
    /\ UNCHANGED <<date_str, date_ret, line, line_ret, data, data_ret, text,
                   pdf_path, water_sections, shared_metadata, validated>>
    /\ UNCHANGED uploadVars

\* upload_icp_test_pdf, lines 120-121: the next dict is validated, and the
\* loop ends with the first one that is rejected
ValidateParsed ==
    /\ pc = "returned"
    /\ Len(validated) < Len(results)
    /\ \E out \in {validate_parsed_data(results[Len(validated) + 1])} :
          /\ validated' = Append(validated, out)
          /\ raised' = out
          /\ pc' = IF out # "none" THEN "raised"
                   ELSE IF Len(validated) + 1 = Len(results) THEN "accepted"
                   ELSE "returned"
    /\ UNCHANGED <<date_str, date_ret, line, line_ret, data, data_ret, text,
                   pdf_path, water_sections, shared_metadata, results>>
    /\ UNCHANGED uploadVars

NextParse ==
    \/ DetectWaterSections
    \/ ExtractMetadata
    \/ ProcessSection
    \/ ValidateParsed

\* documents with section headers, date labels and element lines
SectionBank ==
    {<<"R","e","s","u","l","t","s"," ","o","f"," ","S","a","l","t"," ","w","a","t","e","r">>,
     <<"R","e","s","u","l","t","s"," ","o","f"," ","O","s","m","o","s","i","s"," ","w","a","t","e","r">>,
     <<"r","e","s","u","l","t","s"," ","o","f"," ","r","o"," ","w","a","t","e","r">>,
     <<"T","e","s","t"," ","D","a","t","e",":"," ","2","0","2","6","-","0","2","-","0","7">>,
     <<"C","r","e","a","t","e","d",":"," ","2","0","2","6","-","1","3","-","4","5">>,
     <<"K","H"," ","8",".","5"," ","d","K","H"," ","N","O","R","M","A","L">>}

InitSections ==
    /\ ParseStart
    /\ text \in Texts(SectionBank, MaxSectionLines)
    /\ pdf_path \in {<<"r","e","p","o","r","t",".","p","d","f">>, <<"i","c","p","_","2","0","2","6","-","0","2","-","0","7",".","p","d","f">>}

SpecSections == InitSections /\ [][NextParse]_vars

\* documents of element lines under a file name that carries the date
ElementBank ==
    {<<"K","H"," ","8",".","5"," ","d","K","H"," ","N","O","R","M","A","L">>,
     <<"C","a"," ","-","-","-"," ","m","g","/","l"," ","C","R","I","T","I","C","A","L","L","Y"," ","L","O","W">>,
     <<"N","O","3"," ","-","-","-"," ","m","g","/","l"," ","N","O","R","M","A","L">>,
     <<"N","O","3"," ","2",".","5"," ","m","g","/","l"," ","N","O","R","M","A","L">>,
     <<"S","r"," ","8",".","1"," ","m","g","/","l"," ","A","B","O","V","E"," ","N","O","R","M","A","L">>,
     <<"S"," ","9","0","0"," ","m","g","/","l">>,
     <<" ","S"," ","5"," ","m","g","/","l"," ","K","H"," ","2">>,
     <<"K","H">>,
     <<"R","e","s","u","l","t","s"," ","o","f"," ","R","O"," ","w","a","t","e","r">>}

InitElements ==
    /\ ParseStart
    /\ text \in Texts(ElementBank, MaxElementLines)
    /\ pdf_path \in {<<"i","c","p","_","2","0","2","6","-","0","2","-","0","7",".","p","d","f">>}

SpecElements == InitElements /\ [][NextParse]_vars

(***************************************************************************)
(* Calls of parse_ati_pdf on documents of date labels                      *)
(***************************************************************************)
MaxMetadataLines == 3

MetadataBank ==
    {<<"T","e","s","t"," ","D","a","t","e",":"," ","2","0","2","6","-","0","2","-","0","7">>,
     <<"C","r","e","a","t","e","d",":"," ","2","0","2","6","-","0","2","-","0","1">>,
     <<"S","a","m","p","l","e"," ","D","a","t","e",":"," ","0","2","/","0","3","/","2","0","2","6">>,
     <<"A","r","r","i","v","e","d"," ","i","n"," ","t","h","e"," ","l","a","b","o","r","a","t","o","r","y",":"," ","2","0","2","6","-","0","2","-","0","4">>,
     <<"R","e","c","e","i","v","e","d",":"," ","0","5",".","0","2",".","2","0","2","6">>,
     <<"E","v","a","l","u","a","t","e","d",":"," ","2","0","2","6","-","0","2","-","0","6">>,
     <<"C","r","e","a","t","e","d",":"," ","2","0","2","6","-","1","3","-","4","5">>,
     <<"K","H"," ","8",".","5"," ","d","K","H"," ","N","O","R","M","A","L">>}

InitMetadata ==
    /\ ParseStart
    /\ text \in Texts(MetadataBank, MaxMetadataLines)
    /\ pdf_path \in {<<"r","e","p","o","r","t",".","p","d","f">>, <<"i","c","p","_","2","0","2","6","-","0","3","-","0","1",".","p","d","f">>}

SpecMetadata == InitMetadata /\ [][NextParse]_vars

(***************************************************************************)
(* Calls of parse_ati_pdf on documents with readings of zero                *)
(***************************************************************************)
MaxZeroLines == 3

ZeroBank ==
    {<<"N","O","3"," ","0"," ","m","g","/","l"," ","N","O","R","M","A","L">>,
     <<"P","O","4"," ","0",".","0","0"," ","m","g","/","l"," ","N","O","R","M","A","L">>,
     <<"K","H"," ","0"," ","d","K","H"," ","C","R","I","T","I","C","A","L","L","Y"," ","L","O","W">>,
     <<"S","r"," ","0"," ","m","g","/","l"," ","B","E","L","O","W"," ","N","O","R","M","A","L">>,
     <<"C","a"," ","4","2","0"," ","m","g","/","l"," ","N","O","R","M","A","L">>}

InitZero ==
    /\ ParseStart
    /\ text \in Texts(ZeroBank, MaxZeroLines)
    /\ pdf_path \in {<<"i","c","p","_","2","0","2","6","-","0","2","-","0","7",".","p","d","f">>}

SpecZero == InitZero /\ [][NextParse]_vars

(***************************************************************************)
(* Calls of parse_ati_pdf on documents with quality scores                  *)
(***************************************************************************)
MaxScoreLines == 3

ScoreBank ==
    {<<"O","v","e","r","a","l","l",":"," ","9","5">>,
     <<"O","v","e","r","a","l","l",":"," ","2","5","0">>,
     <<"M","a","j","o","r"," ","E","l","e","m","e","n","t","s"," ","1","0","0">>,
     <<"P","o","l","l","u","t","a","n","t","s",":"," ","0">>,
     <<"K","H"," ","8",".","5"," ","d","K","H"," ","N","O","R","M","A","L">>}

InitScores ==
    /\ ParseStart
    /\ text \in Texts(ScoreBank, MaxScoreLines)
    /\ pdf_path \in {<<"i","c","p","_","2","0","2","6","-","0","2","-","0","7",".","p","d","f">>}

SpecScores == InitScores /\ [][NextParse]_vars

(***************************************************************************)
(* Calls of parse_ati_pdf on documents of two sections with shared labels   *)
(***************************************************************************)
MaxSharedLines == 4

SharedBank ==
    {<<"R","e","s","u","l","t","s"," ","o","f"," ","S","a","l","t"," ","w","a","t","e","r">>,
     <<"R","e","s","u","l","t","s"," ","o","f"," ","R","O"," ","w","a","t","e","r">>,
     <<"T","e","s","t"," ","I","D",":"," ","1","2","3","4","5">>,
     <<"S","a","m","p","l","e"," ","D","a","t","e",":"," ","0","2","/","0","3","/","2","0","2","6">>,
     <<"K","H"," ","8",".","5"," ","d","K","H"," ","N","O","R","M","A","L">>}

InitShared ==
    /\ ParseStart
    /\ text \in Texts(SharedBank, MaxSharedLines)
    /\ pdf_path \in {<<"i","c","p","_","2","0","2","6","-","0","2","-","0","7",".","p","d","f">>}

SpecShared == InitShared /\ [][NextParse]_vars

(***************************************************************************)
(* Calls of parse_ati_pdf on documents with recommendations                 *)
(***************************************************************************)
MaxNarrativeLines == 4

\* the lines of the documents; the empty line gives a blank line
NarrativeBank ==
    {<<"R","e","c","o","m","m","e","n","d","a","t","i","o","n","s",":">>,
     <<"D","o","s","e"," ","c","a","l","c","i","u","m">>,
     <<"-"," ","r","e","d","u","c","e"," ","f","e","e","d","i","n","g">>,
     <<" ","R","a","i","s","e"," ","K","H"," ">>,
     <<>>}

InitNarrative ==
    /\ ParseStart
    /\ text \in Texts(NarrativeBank, MaxNarrativeLines)
    /\ pdf_path \in {<<"i","c","p","_","2","0","2","6","-","0","2","-","0","7",".","p","d","f">>}

SpecNarrative == InitNarrative /\ [][NextParse]_vars

(***************************************************************************)
(* extract_text_from_pdf (lines 19-32) and upload_icp_test_pdf              *)
(* (api/v1/icp_tests.py, lines 60-158)                                      *)
(***************************************************************************)
MaxUploadLines == 4

\* lines 29-30: pdftotext exits non-zero
ExtractionFailed == "ATIParserError: Failed to extract text from PDF"

\* lines 31-32: there is no pdftotext
ToolNotFound == "ATIParserError: pdftotext not found. Install poppler-utils."

\* icp_tests.py, lines 103-104
NoTestData == "ATIParserError: No test data could be extracted from PDF"

\* the exceptions the clause 'except ATIParserError' catches
ATIParserError ==
    {ExtractionFailed, ToolNotFound, NoTestData, NoTestDate, MissingRequired,
     NoElementData}

\* models/icp_test.py, lines 32-165: the attributes of the mapped class; the
\* column named "as" is the attribute as_element
ICPTest ==
    {"id", "tank_id", "user_id", "test_date", "lab_name", "test_id",
     "water_type", "sample_date", "received_date", "evaluated_date",
     "score_major_elements", "score_minor_elements", "score_pollutants",
     "score_base_elements", "score_overall", "salinity",
     "salinity_status", "kh", "kh_status", "cl", "cl_status", "na",
     "na_status", "mg", "mg_status", "s", "s_status", "ca", "ca_status",
     "k", "k_status", "br", "br_status", "sr", "sr_status", "b",
     "b_status", "f", "f_status", "li", "li_status", "si", "si_status",
     "i", "i_status", "ba", "ba_status", "mo", "mo_status", "ni",
     "ni_status", "mn", "mn_status", "as_element", "as_status", "be",
     "be_status", "cr", "cr_status", "co", "co_status", "fe", "fe_status",
     "cu", "cu_status", "se", "se_status", "ag", "ag_status", "v",
     "v_status", "zn", "zn_status", "sn", "sn_status", "no3",
     "no3_status", "p", "p_status", "po4", "po4_status", "al",
     "al_status", "sb", "sb_status", "bi", "bi_status", "pb", "pb_status",
     "cd", "cd_status", "la", "la_status", "tl", "tl_status", "ti",
     "ti_status", "w", "w_status", "hg", "hg_status", "recommendations",
     "dosing_instructions", "pdf_filename", "pdf_path", "notes",
     "created_at", "updated_at", "tank", "owner"}

\* the constructor of a mapped class takes the attributes of the class only:
\* the keywords of kwargs for which it raises TypeError
InvalidKeywords(kwargs) == DOMAIN kwargs \ ICPTest

\* the users and the tanks each of them owns (Tank.user_id)
Users == {"user-1", "user-2"}

TankOwner == [t \in {"tank-1", "tank-2"} |-> IF t = "tank-1" THEN "user-1" ELSE "user-2"]

\* lines 95-97: the name of the temporary copy, 'tmp', eight characters of
\* [a-z0-9_] and the suffix
tmp_path == <<"/","t","m","p","/","t","m","p","k","3","x","9","a","_","b","2",".","p","d","f">>

\* lines 112-113: upload_dir / f"{user}_{tank}_{test_date}_{file.filename}"
file_path(first_test, name) ==
    [dir |-> "uploads/icp_tests", user_id |-> current_user, tank_id |-> tank_id,
     test_date |-> first_test["test_date"], filename |-> name]

\* the names a client gives its file
FileNames == {<<"i","c","p","_","2","0","2","6","-","0","3","-","0","1",".","p","d","f">>, <<"R","E","P","O","R","T",".","P","D","F">>, <<"n","o","t","e","s",".","t","x","t">>}

\* file.filename.lower().endswith('.pdf')
EndsWithPdf(name) ==
    /\ Len(name) >= 4
    /\ upper(SubSeq(name, Len(name) - 3, Len(name))) = <<".","P","D","F">>

\* lines 75-97: the tank is looked up, the file type checked and the upload
\* copied to a temporary file
SaveUpload ==
    /\ pc = "upload"
    /\ \E owned \in {TankOwner[tank_id] = current_user},
          name \in FileNames \cup {<<>>} :
          /\ filename' = name
          /\ IF ~owned
             THEN response' = 404 /\ pc' = "failed"
                    /\ UNCHANGED <<tmp_file, pdf_path>>
             ELSE IF ~EndsWithPdf(name)
             THEN response' = 400 /\ pc' = "failed"
                    /\ UNCHANGED <<tmp_file, pdf_path>>
             ELSE tmp_file' = TRUE /\ pdf_path' = tmp_path /\ pc' = "extract"
                    /\ response' = response
    /\ UNCHANGED <<date_str, date_ret, line, line_ret, data, data_ret, text,
                   water_sections, shared_metadata, results, validated, raised,
                   tool, uploads, db_tests, db,
                   next_id, returned, requestVars>>

\* the extraction with its failures swallowed: the parse goes on
ExtractTextIgnoringFailure ==
    /\ pc = "extract"
    /\ \E outcome \in {"ok", "failed", "missing"} :
          /\ tool' = outcome
          /\ pc' = "segment"
          /\ raised' = raised
    /\ UNCHANGED <<date_str, date_ret, line, line_ret, data, data_ret, text,
                   pdf_path, water_sections, shared_metadata, results, validated,
                   filename, tmp_file, uploads, db_tests, db, response,
                   next_id, returned, requestVars>>

\* ati_parser.py, lines 116 and 19-32: pdftotext prints the text, exits
\* non-zero or is not installed
ExtractText ==
    /\ pc = "extract"
    /\ \E outcome \in {"ok", "failed", "missing"} :
          /\ tool' = outcome
          /\ IF outcome = "ok" THEN pc' = "segment" /\ raised' = raised
             ELSE /\ pc' = "raised"
                  /\ raised' = IF outcome = "failed" THEN ExtractionFailed
                               ELSE ToolNotFound
    /\ UNCHANGED <<date_str, date_ret, line, line_ret, data, data_ret, text,
                   pdf_path, water_sections, shared_metadata, results, validated,
                   filename, tmp_file, uploads, db_tests, db, response,
                   next_id, returned, requestVars>>

\* icp_tests.py, lines 103-116: the upload is moved to its permanent place
MoveUpload ==
    /\ pc = "returned"
    /\ IF results = <<>>
       THEN pc' = "raised" /\ raised' = NoTestData
              /\ UNCHANGED <<tmp_file, uploads>>
       ELSE /\ uploads' = uploads \cup {file_path(results[1], filename)}
            /\ tmp_file' = FALSE
            /\ pc' = "records"
            /\ raised' = raised
    /\ UNCHANGED <<date_str, date_ret, line, line_ret, data, data_ret, text,
                   pdf_path, water_sections, shared_metadata, results, validated,
                   tool, filename, db_tests, db, response,
                   next_id, returned, requestVars>>

\* lines 127-129: the storage keys written into parsed_data
WithStorage(parsed_data, name, path) ==
    ("pdf_filename" :> Str(name)) @@ ("pdf_path" :> path)
        @@ ("tank_id" :> tank_id) @@ parsed_data

\* lines 120-135: one turn of the loop over parsed_tests
AddTest ==
    /\ pc = "records"
    /\ Len(validated) < Len(results)
    /\ \E k \in {Len(validated) + 1} :
       \E out \in {validate_parsed_data(results[k])} :
       \E parsed_data \in {WithStorage(results[k], filename,
                                        file_path(results[1], filename))} :
          /\ validated' = Append(validated, out)
          /\ IF out # "none"
             THEN pc' = "raised" /\ raised' = out
                    /\ UNCHANGED <<results, db_tests>>
             ELSE /\ results' = [results EXCEPT ![k] = parsed_data]
                  /\ IF InvalidKeywords(parsed_data) # {}
                     THEN pc' = "raised" /\ raised' = "TypeError"
                            /\ db_tests' = db_tests
                     ELSE /\ db_tests' = Append(db_tests,
                                ("user_id" :> current_user) @@ parsed_data)
                          /\ raised' = raised
                          /\ pc' = "records"
    /\ UNCHANGED <<date_str, date_ret, line, line_ret, data, data_ret, text,
                   pdf_path, water_sections, shared_metadata, tool, filename,
                   tmp_file, uploads, db, response,
                   next_id, returned, requestVars>>

\* models/icp_test.py, line 32: each row gets its id when it is flushed
WithIds(rows, first) ==
    [k \in 1..Len(rows) |-> ("id" :> first + k - 1) @@ rows[k]]

\* lines 137-143: the session is committed and the tests are returned
Commit ==
    /\ pc = "records"
    /\ Len(validated) = Len(results)
    /\ \E rows \in {WithIds(db_tests, next_id)} :
          /\ db' = db \o rows
          /\ returned' = {rows[k] : k \in 1..Len(rows)}
    /\ next_id' = next_id + Len(db_tests)
    /\ response' = 201
    /\ pc' = "created"
    /\ UNCHANGED <<date_str, date_ret, line, line_ret, data, data_ret, text,
                   pdf_path, water_sections, shared_metadata, results, validated,
                   raised, tool, filename, tmp_file, uploads, db_tests,
                   requestVars>>

\* lines 145-158: the two except clauses
HandleError ==
    /\ pc = "raised"
    /\ tmp_file' = FALSE
    /\ response' = IF raised \in ATIParserError THEN 400
                   ELSE 500
    /\ pc' = "failed"
    /\ UNCHANGED <<date_str, date_ret, line, line_ret, data, data_ret, text,
                   pdf_path, water_sections, shared_metadata, results, validated,
                   raised, tool, filename, uploads, db_tests, db,
                   next_id, returned, requestVars>>

\* the lines after the head of the report: section headers and readings
UploadBank ==
    {<<"R","e","s","u","l","t","s"," ","o","f"," ","S","a","l","t"," ","w","a","t","e","r">>,
     <<"R","e","s","u","l","t","s"," ","o","f"," ","R","O"," ","w","a","t","e","r">>,
     <<"K","H"," ","8",".","5"," ","d","K","H"," ","N","O","R","M","A","L">>,
     <<"A","s"," ","0",".","0","1"," ","m","g","/","l"," ","N","O","R","M","A","L">>}

\* the head of the report: nothing, or the test date
UploadHeads == {<<>>, <<"T","e","s","t"," ","D","a","t","e",":"," ","2","0","2","6","-","0","2","-","0","7","\n">>}

InitUpload ==
    /\ pc = "upload"
    /\ ParseReset
    /\ \E head \in UploadHeads, body \in Texts(UploadBank, MaxUploadLines) :
          text = head \o body
    /\ pdf_path = <<>>
    /\ tool = "ok"
    /\ filename = <<>>
    /\ tmp_file = FALSE
    /\ uploads = {}
    /\ db_tests = <<>>
    /\ db = <<>>
    /\ response = 0
    /\ current_user = "user-1"
    /\ tank_id \in DOMAIN TankOwner
    /\ test_id = 0
    /\ requests = 0
    /\ next_id = 1
    /\ returned = {}

NextUpload ==
    \/ SaveUpload
    \/ ExtractText
    \/ DetectWaterSections
    \/ ExtractMetadata
    \/ ProcessSection
    \/ MoveUpload
    \/ AddTest
    \/ Commit
    \/ HandleError

SpecUpload == InitUpload /\ [][NextUpload]_vars

(***************************************************************************)
(* Calls of validate_parsed_data on arbitrary dicts, next to the calls of   *)
(* parse_ati_pdf                                                            *)
(***************************************************************************)
\* the keys a dict handed to the validator may hold, each with one value
DataKeys ==
    {"lab_name", "test_date", "water_type", "kh", "ca_status", "po4", "sr",
     "score_overall"}

DataValue ==
    [k \in DataKeys |->
        CASE k = "lab_name" -> LAB_NAME
          [] k = "test_date" -> date(2026, 2, 7)
          [] k = "water_type" -> SALTWATER
          [] k = "ca_status" -> Str(<<"N","O","R","M","A","L">>)
          [] k = "score_overall" -> IntVal(90)
          [] OTHER -> Float(85, -1)]

DataInputs == {[k \in K |-> DataValue[k]] : K \in SUBSET DataKeys}

InitData ==
    /\ pc = "validate"
    /\ data \in DataInputs
    /\ data_ret = "unset"
    /\ raised = "none"
    /\ IdleDate /\ IdleLine /\ IdleParse /\ IdleUpload

\* one call validate_parsed_data(data)
CallValidate ==
    /\ pc = "validate"
    /\ \E out \in {validate_parsed_data(data)} :
          /\ data_ret' = out
          /\ raised' = out
          /\ pc' = IF out = "none" THEN "validated" ELSE "raised"
    /\ UNCHANGED <<date_str, date_ret, line, line_ret, data, text, pdf_path,
                   water_sections, shared_metadata, results, validated>>
    /\ UNCHANGED uploadVars

InitValidate == InitData \/ InitSections

NextValidate ==
    \/ CallValidate
    \/ DetectWaterSections
    \/ ExtractMetadata
    \/ ProcessSection
    \/ ValidateParsed

SpecValidate == InitValidate /\ [][NextValidate]_vars

(***************************************************************************)
(* Properties of parse_date (checked under SpecDate)                       *)
(***************************************************************************)
Feb7 == [kind |-> "date", year |-> 2026, month |-> 2, day |-> 7]

\* C6: parse_date accepts YYYY-MM-DD, M/D/YYYY (month first) and D.M.YYYY (day
\* first): '2026-02-07', '02/07/2026' and '07.02.2026' all return 7 February
\* 2026, and so does every possible date written in one of the three formats,
\* while '13.99.2026' returns no date.
C6_DateFormats ==
    pc \in {"returned", "raised"} =>
        /\ date_str = <<"2","0","2","6","-","0","2","-","0","7">> => date_ret = Feb7
        /\ date_str = <<"0","2","/","0","7","/","2","0","2","6">> => date_ret = Feb7
        /\ date_str = <<"0","7",".","0","2",".","2","0","2","6">> => date_ret = Feb7
        /\ date_str = <<"1","3",".","9","9",".","2","0","2","6">> => date_ret = None /\ raised = "none"
        /\ \A y \in DateYears, m \in DateFields, d \in DateFields, pad \in BOOLEAN :
              (y >= 1 /\ m \in 1..12 /\ d \in 1..DaysInMonth(y, m)) =>
                 LET want == [kind |-> "date", year |-> y, month |-> m, day |-> d]
                 IN  /\ date_str = FormatYMD(y, m, d) => date_ret = want
                     /\ date_str = FormatSep(m, d, y, "/", pad) => date_ret = want
                     /\ date_str = FormatSep(d, m, y, ".", pad) => date_ret = want

\* C6 witness: the month-first string '02/07/2026' was parsed to 7 February 2026
C6_Witness ==
    pc = "returned" /\ date_str = <<"0","2","/","0","7","/","2","0","2","6">> /\ date_ret = Feb7

\* C7: parse_date never errors on an impossible date: a token that matches one
\* of the three patterns but is no calendar date falls through, and when no
\* pattern succeeds the call returns no date rather than raising.
C7_NeverRaises ==
    pc \in {"returned", "raised"} =>
        /\ raised = "none"
        /\ \A y \in DateYears, a \in DateFields, b \in DateFields :
              (date_str = FormatYMD(y, a, b) /\ date(y, a, b) = ValueError)
                  => date_ret = None

(***************************************************************************)
(* Properties of extract_value_and_status (checked under SpecLine)         *)
(***************************************************************************)
\* the phrase stands somewhere in line, in any case
HasPhrase(p) == \E i \in 1..Len(line) : MatchAtI(line, i, p)

TwoWordPhrases ==
    {CRITICALLY_LOW_, CRITICALLY_HIGH_, ABOVE_NORMAL_, BELOW_NORMAL_,
     SLIGHTLY_LOW_, SLIGHTLY_HIGH_}

\* the status code of each phrase, written out
CodeOf(p) ==
    CASE p = CRITICALLY_LOW_ -> Str(<<"C","R","I","T","I","C","A","L","L","Y","_","L","O","W">>)
      [] p = CRITICALLY_HIGH_ -> Str(<<"C","R","I","T","I","C","A","L","L","Y","_","H","I","G","H">>)
      [] p = ABOVE_NORMAL_ -> Str(<<"A","B","O","V","E","_","N","O","R","M","A","L">>)
      [] p = BELOW_NORMAL_ -> Str(<<"B","E","L","O","W","_","N","O","R","M","A","L">>)
      [] p = SLIGHTLY_LOW_ -> Str(<<"S","L","I","G","H","T","L","Y","_","L","O","W">>)
      [] p = SLIGHTLY_HIGH_ -> Str(<<"S","L","I","G","H","T","L","Y","_","H","I","G","H">>)
      [] p = NORMAL_ -> Str(<<"N","O","R","M","A","L">>)

\* NORMAL is returned only without any two-word phrase, and the code returned
\* is a phrase of the line with its spaces replaced by underscores
StatusLongestFirst ==
    /\ line_ret[2] = CodeOf(NORMAL_) => \A p \in TwoWordPhrases : ~HasPhrase(p)
    /\ line_ret[2] # None =>
          \E p \in TwoWordPhrases \cup {NORMAL_} : HasPhrase(p) /\ line_ret[2] = CodeOf(p)
    /\ line_ret[2] = None => \A p \in TwoWordPhrases \cup {NORMAL_} : ~HasPhrase(p)

\* C5 as stated: longest phrase first, and a line containing 'ABOVE NORMAL' or
\* 'BELOW NORMAL' always yields ABOVE_NORMAL or BELOW_NORMAL.
C5_AboveBelowAlways ==
    pc = "returned" =>
        /\ StatusLongestFirst
        /\ (HasPhrase(ABOVE_NORMAL_) \/ HasPhrase(BELOW_NORMAL_)) =>
              line_ret[2] \in {CodeOf(ABOVE_NORMAL_), CodeOf(BELOW_NORMAL_)}

\* C5 amended: longest phrase first, and a line containing 'ABOVE NORMAL' or
\* 'BELOW NORMAL' yields ABOVE_NORMAL or BELOW_NORMAL unless it also contains
\* 'CRITICALLY LOW' or 'CRITICALLY HIGH', which stand earlier in the list and
\* then give the code.
C5_StatusPriority ==
    pc = "returned" =>
        /\ StatusLongestFirst
        /\ IF HasPhrase(CRITICALLY_LOW_) THEN line_ret[2] = CodeOf(CRITICALLY_LOW_)
           ELSE IF HasPhrase(CRITICALLY_HIGH_) THEN line_ret[2] = CodeOf(CRITICALLY_HIGH_)
           ELSE (HasPhrase(ABOVE_NORMAL_) \/ HasPhrase(BELOW_NORMAL_)) =>
                   line_ret[2] \in {CodeOf(ABOVE_NORMAL_), CodeOf(BELOW_NORMAL_)}

\* C5 witness: a line with 'Above Normal' in mixed case gave ABOVE_NORMAL
C5_Witness ==
    /\ pc = "returned"
    /\ \E i \in 1..Len(line) : MatchAt(line, i, <<"A","b","o","v","e"," ","N","o","r","m","a","l">>)
    /\ line_ret[2] = CodeOf(ABOVE_NORMAL_)

(***************************************************************************)
(* Properties of parse_ati_pdf and of the validation that follows it       *)
(***************************************************************************)
\* parse_ati_pdf returned its list of dicts
ParseReturned == pc \in {"returned", "accepted"} \/ (pc = "raised" /\ validated # <<>>)

\* parse_ati_pdf ended with an exception
ParseRaised == pc = "raised" /\ validated = <<>>

HasSaltHeader == \E i \in 1..Len(text) : MatchAtI(text, i, SaltHeader)

HasROHeader ==
    \E i \in 1..Len(text) :
        MatchAtI(text, i, OsmosisHeader) \/ MatchAtI(text, i, ROHeader)

\* the text carries a parseable 'Test Date' label, or the file name a date
TestDateRecoverable ==
    \/ Contains(text, <<"T","e","s","t"," ","D","a","t","e",":"," ","2","0","2","6","-","0","2","-","0","7">>)
    \/ Contains(pdf_path, <<"2","0","2","6","-","0","2","-","0","7">>)

\* the water_type of each returned dict, in order
WaterTypes == [k \in 1..Len(results) |-> results[k]["water_type"]]

\* C1: a text with both a salt water header and an Osmosis/RO header, and a
\* recoverable test date, gives exactly two dicts, 'saltwater' first and
\* 'ro_water' second, whatever the order of the headers.
C1_TwoRecords ==
    (pc # "segment" /\ HasSaltHeader /\ HasROHeader /\ TestDateRecoverable) =>
        /\ ~ParseRaised
        /\ ParseReturned => WaterTypes = <<SALTWATER, RO_WATER>>

\* C2: the list of water sections is never empty; a text with neither header
\* gives one section, 'saltwater', whose text is the whole text, and with a
\* recoverable test date exactly one dict tagged 'saltwater'.
C2_ImplicitSaltwater ==
    pc # "segment" =>
        /\ water_sections # <<>>
        /\ (~HasSaltHeader /\ ~HasROHeader) =>
              /\ water_sections = <<[water_type |-> SALTWATER, section_text |-> text]>>
              /\ TestDateRecoverable =>
                    /\ ~ParseRaised
                    /\ ParseReturned => WaterTypes = <<SALTWATER>>

\* the phrase p stands somewhere in ln, in any case
PhraseIn(ln, p) == \E i \in 1..Len(ln) : MatchAtI(ln, i, p)

\* the lines of s that start with the symbol of e followed by whitespace
SymbolLines(s, e) ==
    {i \in 1..Len(s) :
        /\ i = 1 \/ s[i - 1] = "\n"
        /\ MatchAt(s, i, e.sym)
        /\ i + Len(e.sym) <= Len(s)
        /\ IsSpace(s[i + Len(e.sym)])}

\* the first of them, up to the end of its line
FirstSymbolLine(s, e) ==
    SubSeq(s, Min(SymbolLines(s, e)), LineEnd(s, Min(SymbolLines(s, e))))

\* what follows the symbol on that line
AfterSymbol(s, e) ==
    SubSeq(FirstSymbolLine(s, e), Len(e.sym) + 1, Len(FirstSymbolLine(s, e)))

\* the elements whose pattern is the symbol and whitespace alone
Symbols == {elements[k] : k \in {n \in 1..Len(elements) : elements[n].tail = <<>>}}

OneLetterSymbols == {e \in Symbols : Len(e.sym) = 1}

\* dict k has field f with value v
Holds(k, f, v) == f \in DOMAIN results[k] /\ results[k][f] = v

\* C3: when the first line of a section that starts with an element symbol and
\* whitespace carries a number and a status phrase and no '---', the dict holds
\* the value field equal to the number and the status field equal to the
\* status code: 'KH 8.5 dKH NORMAL' gives kh = 8.5 and kh_status = 'NORMAL'.
C3_ValueAndStatus ==
    ParseReturned =>
        \A k \in 1..Len(results) : \A e \in Symbols :
            LET s == water_sections[k].section_text
            IN  SymbolLines(s, e) # {} =>
                    /\ (/\ ~Contains(FirstSymbolLine(s, e), NotDetected)
                        /\ SearchValue(AfterSymbol(s, e)) # None
                        /\ SearchStatus(AfterSymbol(s, e)) # None) =>
                          /\ Holds(k, e.value_field, SearchValue(AfterSymbol(s, e)))
                          /\ Holds(k, e.status_field, SearchStatus(AfterSymbol(s, e)))
                    /\ FirstSymbolLine(s, e) = <<"K","H"," ","8",".","5"," ","d","K","H"," ","N","O","R","M","A","L">> =>
                          /\ Holds(k, "kh", Float(85, -1))
                          /\ Holds(k, "kh_status", CodeOf(NORMAL_))

\* C4: when the matched line of an element contains '---', the dict never
\* holds the value field, whatever digits stand on the line, and holds the
\* status field whenever the line has a status phrase:
\* 'Ca --- mg/l CRITICALLY LOW' gives no ca and ca_status = 'CRITICALLY_LOW'.
C4_NotDetectedMarker ==
    ParseReturned =>
        \A k \in 1..Len(results) : \A e \in Symbols :
            LET s == water_sections[k].section_text
            IN  (SymbolLines(s, e) # {} /\ Contains(FirstSymbolLine(s, e), NotDetected)) =>
                    /\ e.value_field \notin DOMAIN results[k]
                    /\ (\E p \in TwoWordPhrases \cup {NORMAL_} : PhraseIn(FirstSymbolLine(s, e), p)) =>
                          /\ e.status_field \in DOMAIN results[k]
                          /\ \E p \in TwoWordPhrases \cup {NORMAL_} :
                                /\ PhraseIn(FirstSymbolLine(s, e), p)
                                /\ results[k][e.status_field] = CodeOf(p)
                    /\ FirstSymbolLine(s, e) = <<"C","a"," ","-","-","-"," ","m","g","/","l"," ","C","R","I","T","I","C","A","L","L","Y"," ","L","O","W">> =>
                          Holds(k, "ca_status", CodeOf(CRITICALLY_LOW_))

\* C4 witness: 'Ca --- mg/l CRITICALLY LOW' was read, the dict holds
\* ca_status = 'CRITICALLY_LOW' and no ca
C4_Witness ==
    /\ ParseReturned
    /\ MatchAt(text, 1, <<"C","a"," ","-","-","-"," ","m","g","/","l"," ","C","R","I","T","I","C","A","L","L","Y"," ","L","O","W">>)
    /\ Holds(1, "ca_status", CodeOf(CRITICALLY_LOW_))
    /\ "ca" \notin DOMAIN results[1]

\* C8: the reading stored for a one-letter symbol comes from the first line
\* that starts with that symbol followed by whitespace; with no such line the
\* dict holds neither field, so a line of a longer symbol with the same first
\* letter, or the symbol further inside a line, gives the symbol no reading.
C8_AnchoredSymbol ==
    ParseReturned =>
        \A k \in 1..Len(results) : \A e \in OneLetterSymbols :
            LET s == water_sections[k].section_text
            IN  IF SymbolLines(s, e) = {}
                THEN /\ e.value_field \notin DOMAIN results[k]
                     /\ e.status_field \notin DOMAIN results[k]
                ELSE /\ e.value_field \in DOMAIN results[k] =>
                            results[k][e.value_field] = SearchValue(FirstSymbolLine(s, e))
                     /\ e.status_field \in DOMAIN results[k] =>
                            results[k][e.status_field] = SearchStatus(FirstSymbolLine(s, e))

\* C8 witness: a text with an Sr line and an S inside a line, and no line that
\* starts with S and whitespace, gave sr = 8.1 and no reading for s
C8_Witness ==
    /\ ParseReturned
    /\ text = <<"S","r"," ","8",".","1"," ","m","g","/","l"," ","A","B","O","V","E"," ","N","O","R","M","A","L">> \o <<"\n">> \o <<" ","S"," ","5"," ","m","g","/","l"," ","K","H"," ","2">> \o <<"\n">>
    /\ Holds(1, "sr", Float(81, -1))
    /\ "s" \notin DOMAIN results[1]
    /\ "s_status" \notin DOMAIN results[1]

\* the text has no line that starts with an element symbol and whitespace
NoElementLines ==
    \A k \in 1..Len(elements) : SymbolLines(text, elements[k]) = {}

\* dict d holds none of the fields the validator looks for
NoAnchorField(d) == \A f \in element_fields : f \notin DOMAIN d

C10_RequiredFirst ==
    /\ data_ret # "unset" =>
          /\ ("lab_name" \notin DOMAIN data \/ "test_date" \notin DOMAIN data) =>
                data_ret = MissingRequired
          /\ data_ret = "none" => "test_date" \in DOMAIN data
    /\ \A k \in 1..Len(results) : "test_date" \in DOMAIN results[k]
    /\ \A k \in 1..Len(validated) :
          validated[k] = "none" => {"lab_name", "test_date"} \subseteq DOMAIN results[k]

\* C10 witness: a dict with lab_name, without test_date and without any anchor
\* field was rejected with the missing-required-fields error
C10_Witness ==
    /\ "lab_name" \in DOMAIN data
    /\ "test_date" \notin DOMAIN data
    /\ NoAnchorField(data)
    /\ data_ret = MissingRequired

(***************************************************************************)
(* Properties of the shared metadata (checked under SpecMetadata)          *)
(***************************************************************************)
\* the shared metadata has been extracted without an exception
MetadataDone == pc \notin {"segment", "metadata"} /\ ~ParseRaised

\* shared_metadata has field f with the date of month m and day d of 2026
MetaDate(f, m, d) ==
    /\ f \in DOMAIN shared_metadata
    /\ shared_metadata[f] = [kind |-> "date", year |-> 2026, month |-> m, day |-> d]

BodyTestDate == Contains(text, <<"T","e","s","t"," ","D","a","t","e",":"," ","2","0","2","6","-","0","2","-","0","7">>)

BodyEvaluated == Contains(text, <<"E","v","a","l","u","a","t","e","d",":"," ","2","0","2","6","-","0","2","-","0","6">>)

FileDate == Contains(pdf_path, <<"2","0","2","6","-","0","3","-","0","1">>)

\* C11: a document whose text gives no test date and no evaluated date and
\* whose file name holds a YYYY-MM-DD date is parsed without error with that
\* date as test_date; a test date of the text is never replaced by the date
\* of the file name.
C11_FilenameDate ==
    pc \notin {"segment", "metadata"} =>
        /\ (~BodyTestDate /\ ~BodyEvaluated /\ FileDate) =>
              /\ ~ParseRaised
              /\ MetaDate("test_date", 3, 1)
              /\ \A k \in 1..Len(results) :
                    Holds(k, "test_date", [kind |-> "date", year |-> 2026, month |-> 3, day |-> 1])
        /\ (BodyTestDate /\ ~ParseRaised) => MetaDate("test_date", 2, 7)
        /\ (~BodyTestDate /\ BodyEvaluated /\ ~ParseRaised) => MetaDate("test_date", 2, 6)

\* C12: in every dict returned, evaluated_date comes with test_date; test_date
\* equals evaluated_date when no 'Test Date' label gave a date, also when the
\* file name holds one; the date of a 'Test Date' label is never replaced by
\* the evaluated date.
C12_EvaluatedAsTestDate ==
    \A k \in 1..Len(results) :
        /\ "evaluated_date" \in DOMAIN results[k] => "test_date" \in DOMAIN results[k]
        /\ (~BodyTestDate /\ "evaluated_date" \in DOMAIN results[k]) =>
              results[k]["test_date"] = results[k]["evaluated_date"]
        /\ BodyEvaluated =>
              Holds(k, "evaluated_date", [kind |-> "date", year |-> 2026, month |-> 2, day |-> 6])
        /\ BodyTestDate =>
              Holds(k, "test_date", [kind |-> "date", year |-> 2026, month |-> 2, day |-> 7])

\* C12 witness: with an 'Evaluated' label, no 'Test Date' label and a date in
\* the file name, the dict returned has test_date = evaluated_date = 6 February
C12_Witness ==
    /\ ParseReturned
    /\ ~BodyTestDate /\ BodyEvaluated /\ FileDate
    /\ Holds(1, "evaluated_date", [kind |-> "date", year |-> 2026, month |-> 2, day |-> 6])
    /\ Holds(1, "test_date", [kind |-> "date", year |-> 2026, month |-> 2, day |-> 6])

\* C12 witness of the other case: both labels, test_date is the 'Test Date'
C12_BothLabels ==
    /\ ParseReturned
    /\ BodyTestDate /\ BodyEvaluated
    /\ Holds(1, "test_date", [kind |-> "date", year |-> 2026, month |-> 2, day |-> 7])

\* the index of the first occurrence of lit in the text
FirstAt(lit) == Min({i \in 1..Len(text) : MatchAt(text, i, lit)})

\* lit stands in the text, and before any occurrence of other
StandsFirst(lit, other) ==
    Contains(text, lit) /\ (Contains(text, other) => FirstAt(lit) < FirstAt(other))

\* C13: when two synonyms of one date field stand in the text with parseable
\* dates, the first match wins and a later synonym does not overwrite it:
\* the field holds the date of the synonym tried first ('Created' before
\* 'Sample Date', 'Arrived in the laboratory' before 'Received'), or at least
\* that of the synonym standing first in the text.
C13_FirstSynonymWins ==
    (MetadataDone /\ ~Contains(text, <<"C","r","e","a","t","e","d",":"," ","2","0","2","6","-","1","3","-","4","5">>)) =>
        /\ (Contains(text, <<"C","r","e","a","t","e","d",":"," ","2","0","2","6","-","0","2","-","0","1">>) /\ Contains(text, <<"S","a","m","p","l","e"," ","D","a","t","e",":"," ","0","2","/","0","3","/","2","0","2","6">>)) =>
              \/ MetaDate("sample_date", 2, 1)
              \/ /\ StandsFirst(<<"S","a","m","p","l","e"," ","D","a","t","e",":"," ","0","2","/","0","3","/","2","0","2","6">>, <<"C","r","e","a","t","e","d",":"," ","2","0","2","6","-","0","2","-","0","1">>)
                 /\ MetaDate("sample_date", 2, 3)
        /\ (Contains(text, <<"A","r","r","i","v","e","d"," ","i","n"," ","t","h","e"," ","l","a","b","o","r","a","t","o","r","y",":"," ","2","0","2","6","-","0","2","-","0","4">>) /\ Contains(text, <<"R","e","c","e","i","v","e","d",":"," ","0","5",".","0","2",".","2","0","2","6">>)) =>
              \/ MetaDate("received_date", 2, 4)
              \/ /\ StandsFirst(<<"R","e","c","e","i","v","e","d",":"," ","0","5",".","0","2",".","2","0","2","6">>, <<"A","r","r","i","v","e","d"," ","i","n"," ","t","h","e"," ","l","a","b","o","r","a","t","o","r","y",":"," ","2","0","2","6","-","0","2","-","0","4">>)
                 /\ MetaDate("received_date", 2, 5)

(***************************************************************************)
(* Properties of the upload (checked under SpecUpload)                      *)
(***************************************************************************)
\* the upload has ended, with a response
UploadEnded == pc \in {"created", "failed"}

\* the committed rows of water type w
Persisted(w) == {r \in 1..Len(db) : db[r]["water_type"] = w}

\* C14: when a document gives two dicts of which one fails validation for
\* want of anchor data and the other passes and has no key the entity
\* rejects, the upload still persists the one that passes.
C14_SiblingPersisted ==
    (UploadEnded /\ Len(results) = 2) =>
        \A k \in 1..2 :
            (/\ validate_parsed_data(results[k]) = "none"
             /\ validate_parsed_data(results[3 - k]) = NoElementData
             /\ InvalidKeywords(results[k]) = {}) =>
                Persisted(results[k]["water_type"]) # {}

(***************************************************************************)
(* Properties of the dicts (checked under SpecElements)                     *)
(***************************************************************************)
\* the value and status fields of the tracked symbols
TrackedFields ==
    {elements[n].value_field : n \in 1..Len(elements)}
        \cup {elements[n].status_field : n \in 1..Len(elements)}

\* C15: partial extraction is never an error: with a recoverable test date
\* the parse does not fail, and every dict that holds the value or the status
\* of at least one tracked symbol passes validation, whichever symbols they are.
C15_PartialExtraction ==
    TestDateRecoverable =>
        /\ ~ParseRaised
        /\ \A k \in 1..Len(validated) :
              DOMAIN results[k] \cap TrackedFields # {} => validated[k] = "none"

\* C16: when pdftotext is missing or exits non-zero, the upload ends with the
\* ATIParserError of the extraction and its reason: no section is segmented
\* or processed, no dict is returned, no record is added or persisted, no
\* file is stored, and the answer is 400 with the temporary file removed.
C16_ExtractionFailure ==
    tool # "ok" =>
        /\ pc \in {"raised", "failed"}
        /\ raised \in ATIParserError
        /\ raised = IF tool = "failed" THEN ExtractionFailed ELSE ToolNotFound
        /\ water_sections = <<>> /\ shared_metadata = EmptyDict
        /\ results = <<>> /\ validated = <<>>
        /\ db_tests = <<>> /\ db = <<>> /\ uploads = {}
        /\ pc = "failed" => response = 400 /\ ~tmp_file

\* C16 witness: an upload of a document with a section header and a reading,
\* ended by the missing tool
C16_Witness ==
    /\ pc = "failed"
    /\ tool = "missing"
    /\ raised = ToolNotFound
    /\ response = 400
    /\ Contains(text, <<"R","e","s","u","l","t","s"," ","o","f"," ","S","a","l","t"," ","w","a","t","e","r">>) /\ Contains(text, <<"K","H"," ","8",".","5"," ","d","K","H"," ","N","O","R","M","A","L">>)
    /\ Contains(text, <<"T","e","s","t"," ","D","a","t","e",":"," ","2","0","2","6","-","0","2","-","0","7">>)
    /\ db = <<>> /\ uploads = {}

\* C18: absent data is omitted: a symbol with no line of its own in the
\* section gives the dict neither its value field nor its status field, and
\* no key of a returned dict holds None.
C18_AbsentOmitted ==
    \A k \in 1..Len(results) :
        /\ \A f \in DOMAIN results[k] : results[k][f] # None
        /\ \A n \in 1..Len(elements) :
              SymbolLines(water_sections[k].section_text, elements[n]) = {} =>
                  /\ elements[n].value_field \notin DOMAIN results[k]
                  /\ elements[n].status_field \notin DOMAIN results[k]

\* C18 witness: 'KH 8.5 dKH NORMAL', a 'KH' line and 'NO3 --- mg/l NORMAL'
\* gave kh, kh_status and no3_status, no no3 and nothing for calcium
C18_Witness ==
    /\ ParseReturned
    /\ Contains(text, <<"N","O","3"," ","-","-","-"," ","m","g","/","l"," ","N","O","R","M","A","L">>)
    /\ Holds(1, "kh", Float(85, -1))
    /\ "no3_status" \in DOMAIN results[1]
    /\ "no3" \notin DOMAIN results[1]
    /\ DOMAIN results[1] \cap {"ca", "ca_status"} = {}

(***************************************************************************)
(* Properties of readings of zero (checked under SpecZero)                  *)
(***************************************************************************)
\* the number that follows the symbol of e on its first line is 0 or 0.00
ReportsZero(s, e) ==
    \E z \in {<<"0"," ">>, <<"0",".","0","0"," ">>} :
        MatchAt(strip(AfterSymbol(s, e)), 1, z)

\* C19: a measured zero is kept: when the first line of a symbol reports the
\* number 0, the dict holds the value field of the symbol, equal to 0; so
\* 'NO3 0 mg/l NORMAL' gives no3 = 0.
C19_MeasuredZero ==
    ParseReturned =>
        \A k \in 1..Len(results) : \A e \in Symbols :
            (/\ SymbolLines(water_sections[k].section_text, e) # {}
             /\ ReportsZero(water_sections[k].section_text, e)) =>
                Holds(k, e.value_field, Float(0, 0))

\* C20: every key of a dict parse_ati_pdf returns is an attribute of ICPTest,
\* so the construction of the entity never fails on a field name.
C20_FieldsMapToEntity ==
    /\ raised # "TypeError"
    /\ \A k \in 1..Len(results) : InvalidKeywords(results[k]) = {}

(***************************************************************************)
(* Properties of the quality scores (checked under SpecScores)              *)
(***************************************************************************)
\* the five score fields
ScoreFields == {score_mappings[n].field : n \in 1..Len(score_mappings)}

\* C21: every quality score of a returned dict is an integer from 0 to 100.
C21_ScoreRange ==
    \A k \in 1..Len(results) : \A f \in ScoreFields \cap DOMAIN results[k] :
        /\ results[k][f].kind = "int"
        /\ results[k][f].val \in 0..100

\* C22: the date of last resort is read from the original file name: an
\* upload named icp_2026-03-01.pdf whose text has no date is parsed, with
\* test_date 1 March 2026 in every dict.
C22_OriginalFilenameDate ==
    (/\ filename = <<"i","c","p","_","2","0","2","6","-","0","3","-","0","1",".","p","d","f">>
     /\ ~Contains(text, <<"T","e","s","t"," ","D","a","t","e",":"," ","2","0","2","6","-","0","2","-","0","7">>)
     /\ pdf_path = tmp_path /\ tool = "ok") =>
        /\ raised # NoTestDate
        /\ pc \in {"returned", "records", "created", "failed"} =>
              /\ results # <<>>
              /\ \A k \in 1..Len(results) :
                    Holds(k, "test_date", [kind |-> "date", year |-> 2026, month |-> 3, day |-> 1])

(***************************************************************************)
(* Properties of documents of two sections (checked under SpecShared)       *)
(***************************************************************************)
\* the fields of the shared metadata
SharedFields ==
    {"test_id", "sample_date", "received_date", "evaluated_date", "test_date"}

\* C23: the dicts returned for one document agree on the shared metadata:
\* each of test_id, sample_date, received_date, evaluated_date and test_date
\* is in all of them with one value or in none, it is the value found in the
\* whole text, and lab_name is 'ATI Aquaristik' in all of them.
C23_SharedMetadata ==
    \A k \in 1..Len(results) :
        /\ Holds(k, "lab_name", LAB_NAME)
        /\ \A f \in SharedFields :
              /\ f \in DOMAIN results[k] <=> f \in DOMAIN shared_metadata
              /\ f \in DOMAIN results[k] => results[k][f] = shared_metadata[f]
        /\ Contains(text, <<"T","e","s","t"," ","I","D",":"," ","1","2","3","4","5">>) => Holds(k, "test_id", Str(<<"1","2","3","4","5">>))
        /\ Contains(text, <<"S","a","m","p","l","e"," ","D","a","t","e",":"," ","0","2","/","0","3","/","2","0","2","6">>) =>
              Holds(k, "sample_date", [kind |-> "date", year |-> 2026, month |-> 2, day |-> 3])
        /\ \A j \in 1..Len(results) : \A f \in SharedFields :
              /\ f \in DOMAIN results[k] <=> f \in DOMAIN results[j]
              /\ f \in DOMAIN results[k] => results[k][f] = results[j][f]

\* C23 witness: the test id stands before the first header and the sample
\* date inside the RO section only, and both dicts hold both
C23_Witness ==
    /\ ParseReturned
    /\ text = <<"T","e","s","t"," ","I","D",":"," ","1","2","3","4","5">> \o <<"\n">> \o <<"R","e","s","u","l","t","s"," ","o","f"," ","S","a","l","t"," ","w","a","t","e","r">> \o <<"\n">>
                \o <<"R","e","s","u","l","t","s"," ","o","f"," ","R","O"," ","w","a","t","e","r">> \o <<"\n">> \o <<"S","a","m","p","l","e"," ","D","a","t","e",":"," ","0","2","/","0","3","/","2","0","2","6">> \o <<"\n">>
    /\ Len(results) = 2
    /\ \A k \in 1..2 :
          /\ Holds(k, "test_id", Str(<<"1","2","3","4","5">>))
          /\ Holds(k, "sample_date", [kind |-> "date", year |-> 2026, month |-> 2, day |-> 3])
          /\ Holds(k, "test_date", [kind |-> "date", year |-> 2026, month |-> 2, day |-> 7])

(***************************************************************************)
(* Properties of the section spans (checked under SpecSections)             *)
(***************************************************************************)
\* the indices of the text where a header of water type w starts
HeadersOf(w) ==
    {i \in 1..Len(text) :
        IF w = SALTWATER THEN MatchAtI(text, i, SaltHeader)
        ELSE MatchAtI(text, i, OsmosisHeader) \/ MatchAtI(text, i, ROHeader)}

\* the first introducer after index h, the end of the text if there is none
NextIntroducer(h) ==
    Min({q \in (h + 1)..(Len(text) + 1) :
            q = Len(text) + 1 \/ MatchAtI(text, q, ResultsOf)})

\* the span of dict k: from the first header of its water type to the next
\* introducer or the end of the text; the whole text when there is no header
OwnSpan(k) ==
    IF ~HasSaltHeader /\ ~HasROHeader THEN text
    ELSE SubSeq(text, Min(HeadersOf(results[k]["water_type"])),
                NextIntroducer(Min(HeadersOf(results[k]["water_type"]))) - 1)

\* s, and s without the newline that ends it
UpToNewline(s) ==
    {s} \cup {SubSeq(s, 1, Len(s) - 1) : n \in {m \in {Len(s)} : m >= 1 /\ s[m] = "\n"}}

FirstLineReading(s, e) ==
    <<IF Contains(FirstSymbolLine(s, e), NotDetected) THEN None
      ELSE SearchValue(FirstSymbolLine(s, e)),
      SearchStatus(FirstSymbolLine(s, e))>>

\* C25: of the lines of a section that start with a symbol, only the first
\* is used: the dict holds the value and the status that line gives and
\* nothing of a later line, so a first line that gives neither leaves the
\* symbol without reading.
C25_FirstLineOnly ==
    \A k \in 1..Len(results) : \A e \in Symbols :
        SymbolLines(water_sections[k].section_text, e) # {} =>
            \E r \in {FirstLineReading(water_sections[k].section_text, e)} :
                /\ e.value_field \in DOMAIN results[k] <=> r[1] # None
                /\ e.value_field \in DOMAIN results[k] => results[k][e.value_field] = r[1]
                /\ e.status_field \in DOMAIN results[k] <=> r[2] # None
                /\ e.status_field \in DOMAIN results[k] => results[k][e.status_field] = r[2]

\* C25 witness: a bare 'KH' line before 'KH 8.5 dKH NORMAL' leaves kh unset,
\* and 'NO3 --- mg/l NORMAL' before 'NO3 2.5 mg/l NORMAL' gives the status only
C25_Witness ==
    /\ ParseReturned
    /\ MatchAt(text, 1, <<"K","H">> \o <<"\n">> \o <<"K","H"," ","8",".","5"," ","d","K","H"," ","N","O","R","M","A","L">>)
    /\ DOMAIN results[1] \cap {"kh", "kh_status"} = {}

\* C25 witness of the other case
C25_StatusOnly ==
    /\ ParseReturned
    /\ MatchAt(text, 1, <<"N","O","3"," ","-","-","-"," ","m","g","/","l"," ","N","O","R","M","A","L">> \o <<"\n">> \o <<"N","O","3"," ","2",".","5"," ","m","g","/","l"," ","N","O","R","M","A","L">>)
    /\ "no3" \notin DOMAIN results[1]
    /\ "no3_status" \in DOMAIN results[1]

(***************************************************************************)
(* Properties of the recommendations (checked under SpecNarrative)          *)
(***************************************************************************)
\* the lines of the text, without the newlines
TextLines == split_lines(text)

\* the number of the first line that is the 'Recommendations:' label, 0 if
\* there is none
LabelLine ==
    IF \E k \in 1..Len(TextLines) : TextLines[k] = <<"R","e","c","o","m","m","e","n","d","a","t","i","o","n","s",":">>
    THEN Min({k \in 1..Len(TextLines) : TextLines[k] = <<"R","e","c","o","m","m","e","n","d","a","t","i","o","n","s",":">>})
    ELSE 0

\* the number of the first blank line after the label, or of the line after
\* the last one
BlankAfterLabel ==
    Min({k \in (LabelLine + 1)..(Len(TextLines) + 1) :
            k = Len(TextLines) + 1 \/ TextLines[k] = <<>>})

\* the entries the lines between the label and that blank line give
ExpectedEntries ==
    SelectSeq([k \in 1..(BlankAfterLabel - LabelLine - 1) |->
                  [text |-> Str(strip(TextLines[LabelLine + k]))]],
              LAMBDA x : x.text.chars # <<>> /\ x.text.chars[1] # "-")

\* C26: recommendations holds, in the order of the text, one entry for each
\* line between the 'Recommendations' label and the next blank line or the
\* end of the section that is not empty after trimming and starts with no
\* dash; when there is no such line the field is omitted.
C26_RecommendationLines ==
    \A k \in 1..Len(results) :
        IF LabelLine = 0 \/ ExpectedEntries = <<>>
        THEN "recommendations" \notin DOMAIN results[k]
        ELSE Holds(k, "recommendations", List(ExpectedEntries))

(***************************************************************************)
(* The number read from an element line (checked under SpecElements)        *)
(***************************************************************************)
\* C27: the value stored for a symbol is the number that follows the symbol
\* on its first line, never a digit of the symbol itself: 'NO3 2.5 mg/l
\* NORMAL' gives no3 = 2.5.
C27_ValueAfterSymbol ==
    \A k \in 1..Len(results) : \A e \in Symbols :
        (/\ SymbolLines(water_sections[k].section_text, e) # {}
         /\ e.value_field \in DOMAIN results[k]) =>
            /\ results[k][e.value_field] =
                  SearchValue(AfterSymbol(water_sections[k].section_text, e))
            /\ FirstSymbolLine(water_sections[k].section_text, e) = <<"N","O","3"," ","2",".","5"," ","m","g","/","l"," ","N","O","R","M","A","L">> =>
                  results[k]["no3"] = Float(25, -1)

(***************************************************************************)
(* Properties of the stored files and rows (checked under SpecUpload)       *)
(***************************************************************************)
\* the paths the committed rows refer to
ReferencedPaths == {db[r]["pdf_path"] : r \in 1..Len(db)}

\* C28: an upload that ends with an error leaves no file behind: the
\* temporary file is gone and every file of the upload directory is the
\* pdf_path of a committed row.
C28_NoFileLeftBehind ==
    pc = "failed" =>
        /\ ~tmp_file
        /\ uploads \subseteq ReferencedPaths

(***************************************************************************)
(* The handlers of api/v1/icp_tests.py serving one request after another    *)
(***************************************************************************)

MaxRequests == 2

\* the positions at which no handler is running
Ready == {"idle", "created", "failed", "posted", "listed", "got", "updated", "deleted"}

\* the reports clients upload
ApiTexts ==
    {<<"T","e","s","t"," ","D","a","t","e",":"," ","2","0","2","6","-","0","2","-","0","7","\n","R","e","s","u","l","t","s"," ","o","f"," ","S","a","l","t"," ","w","a","t","e","r","\n","K","H"," ","8",".","5"," ","d","K","H"," ","N","O","R","M","A","L","\n","R","e","s","u","l","t","s"," ","o","f"," ","R","O"," ","w","a","t","e","r","\n","K","H"," ","8",".","5"," ","d","K","H"," ","N","O","R","M","A","L","\n">>,
     <<"T","e","s","t"," ","D","a","t","e",":"," ","2","0","2","6","-","0","2","-","0","7","\n","R","e","s","u","l","t","s"," ","o","f"," ","S","a","l","t"," ","w","a","t","e","r","\n","K","H"," ","8",".","5"," ","d","K","H"," ","N","O","R","M","A","L","\n">>}

\* a handler is entered with the dependencies of its signature resolved: its
\* locals are fresh, the database and the stored files are what they were
NewRequest(user, tank, id) ==
    /\ pc \in Ready
    /\ requests < MaxRequests
    /\ requests' = requests + 1
    /\ current_user' = user
    /\ tank_id' = tank
    /\ test_id' = id
    /\ water_sections' = <<>>
    /\ shared_metadata' = EmptyDict
    /\ results' = <<>>
    /\ validated' = <<>>
    /\ raised' = "none"
    /\ date_str' = <<>> /\ date_ret' = Unset
    /\ line' = <<>> /\ line_ret' = Unset
    /\ data' = <<>> /\ data_ret' = "unset"
    /\ pdf_path' = <<>>
    /\ tool' = "ok"
    /\ filename' = <<>>
    /\ db_tests' = <<>>
    /\ tmp_file' = tmp_file

\* lines 60-66: upload_icp_test_pdf is entered with the form's tank and file
ReceiveUpload ==
    \E user \in Users, tank \in DOMAIN TankOwner, content \in ApiTexts :
       /\ NewRequest(user, tank, 0)
       /\ text' = content
       /\ pc' = "upload"
       /\ response' = 0
       /\ returned' = {}
       /\ UNCHANGED <<uploads, db, next_id>>

\* lines 27-57: create_icp_test
CreateTest ==
    \E user \in Users, tank \in DOMAIN TankOwner,
       path \in {None} \cup uploads :
    \E test_data \in {("test_date" :> Feb7) @@ ("lab_name" :> Str(<<"A","T","I"," ","A","q","u","a","r","i","s","t","i","k">>))
                        @@ ("water_type" :> Str(<<"s","a","l","t","w","a","t","e","r">>))
                        @@ ("pdf_path" :> path)} :
       /\ NewRequest(user, tank, 0)
       /\ text' = <<>>
       /\ IF TankOwner[tank] # user
          THEN /\ response' = 404 /\ pc' = "failed" /\ returned' = {}
               /\ UNCHANGED <<db, next_id>>
          ELSE \E db_test \in {("id" :> next_id) @@ ("user_id" :> user)
                                 @@ ("tank_id" :> tank) @@ test_data} :
               /\ db' = Append(db, db_test)
               /\ next_id' = next_id + 1
               /\ returned' = {db_test}
               /\ response' = 201
               /\ pc' = "posted"
       /\ UNCHANGED uploads

\* the day number a date is compared by
DateKey(d) == d.year * 10000 + d.month * 100 + d.day

\* lines 173-185: the filters of list_icp_tests, "none" and None for an
\* absent parameter
Listed(user, tank, lab, from_date, to_date) ==
    {db[k] : k \in {j \in DOMAIN db :
        /\ db[j]["user_id"] = user
        /\ tank # "none" => db[j]["tank_id"] = tank
        /\ lab # None => Contains(upper(db[j]["lab_name"].chars), upper(lab.chars))
        /\ from_date # None => DateKey(db[j]["test_date"]) >= DateKey(from_date)
        /\ to_date # None => DateKey(db[j]["test_date"]) <= DateKey(to_date)}}

\* lines 161-190: list_icp_tests with skip 0 and a limit above the number of
\* rows; the rows are returned by descending test_date, which the set of
\* returned rows does not record
ListTests ==
    \E user \in Users, tank \in DOMAIN TankOwner \cup {"none"},
       lab \in {None, Str(<<"a","t","i">>)}, from_date \in {None, Feb7},
       to_date \in {None, Feb7} :
       /\ NewRequest(user, tank, 0)
       /\ text' = <<>>
       /\ returned' = Listed(user, tank, lab, from_date, to_date)
       /\ response' = 200
       /\ pc' = "listed"
       /\ UNCHANGED <<uploads, db, next_id>>

\* the lookup without the filter on the owner
QueryTestAnyUser(id, user) ==
    {k \in DOMAIN db : db[k]["id"] = id}

\* lines 200-203, 222-225 and 251-254: the row with this id among the
\* current user's rows, as a set of at most one position
QueryTest(id, user) ==
    {k \in DOMAIN db : db[k]["id"] = id /\ db[k]["user_id"] = user}

\* lines 193-211: get_icp_test
GetTest ==
    \E user \in Users, id \in 1..next_id :
       /\ NewRequest(user, tank_id, id)
       /\ text' = <<>>
       /\ \E test \in {QueryTest(id, user)} :
             IF test = {}
             THEN response' = 404 /\ pc' = "failed" /\ returned' = {}
             ELSE /\ returned' = {db[k] : k \in test}
                  /\ response' = 200
                  /\ pc' = "got"
       /\ UNCHANGED <<uploads, db, next_id>>

\* schemas/icp_test.py, lines 138-147: the bodies of an update request
UpdateData == {EmptyDict, ("notes" :> Str(<<"a","f","t","e","r"," ","a"," ","w","a","t","e","r"," ","c","h","a","n","g","e">>)),
               ("test_date" :> [kind |-> "date", year |-> 2026, month |-> 3, day |-> 1])}

\* lines 214-241: update_icp_test
UpdateTest ==
    \E user \in Users, id \in 1..next_id, update_data \in UpdateData :
       /\ NewRequest(user, tank_id, id)
       /\ text' = <<>>
       /\ \E test \in {QueryTest(id, user)} :
             IF test = {}
             THEN response' = 404 /\ pc' = "failed" /\ returned' = {}
                    /\ db' = db
             ELSE \E k \in test :
                  /\ db' = [db EXCEPT ![k] = update_data @@ db[k]]
                  /\ returned' = {update_data @@ db[k]}
                  /\ response' = 200
                  /\ pc' = "updated"
       /\ UNCHANGED <<uploads, next_id>>

\* the rows without the one at position k
Without(rows, k) ==
    [j \in 1..(Len(rows) - 1) |-> IF j < k THEN rows[j] ELSE rows[j + 1]]

\* lines 244-270: delete_icp_test
DeleteTest ==
    \E user \in Users, id \in 1..next_id :
       /\ NewRequest(user, tank_id, id)
       /\ text' = <<>>
       /\ \E test \in {QueryTest(id, user)} :
             IF test = {}
             THEN response' = 404 /\ pc' = "failed"
                    /\ UNCHANGED <<uploads, db>>
             ELSE \E k \in test :
                  /\ uploads' = IF db[k]["pdf_path"] # None
                                THEN uploads \ {db[k]["pdf_path"]}
                                ELSE uploads
                  /\ db' = Without(db, k)
                  /\ response' = 204
                  /\ pc' = "deleted"
       /\ returned' = {}
       /\ UNCHANGED next_id

InitApi ==
    /\ pc = "idle"
    /\ ParseReset
    /\ text = <<>>
    /\ pdf_path = <<>>
    /\ IdleUpload

NextApi ==
    \/ ReceiveUpload
    \/ SaveUpload
    \/ ExtractText
    \/ DetectWaterSections
    \/ ExtractMetadata
    \/ ProcessSection
    \/ MoveUpload
    \/ AddTest
    \/ Commit
    \/ HandleError
    \/ CreateTest
    \/ ListTests
    \/ GetTest
    \/ UpdateTest
    \/ DeleteTest

SpecApi == InitApi /\ [][NextApi]_vars

\* C29: after any sequence of uploads and deletes, every persisted row with a
\* pdf_path refers to a stored file that still exists: deleting one row never
\* removes a PDF another remaining row still references
C29_StoredFileExists ==
    \A k \in DOMAIN db :
       db[k]["pdf_path"] # None => db[k]["pdf_path"] \in uploads

\* the rows of icp_tests that do not belong to this user
RowsOfOthers(user) == {k \in DOMAIN db : db[k]["user_id"] # user}

\* C30: records are isolated per user: create and upload succeed only for a
\* tank the current user owns and store the current user's id; get, update,
\* delete and list never return, change or remove a row of another user, and a
\* request that names such a row is answered 404 with the rows and the stored
\* files left as they were
C30_UserIsolation ==
    [][/\ response' = 201 => TankOwner[tank_id'] = current_user'
       /\ \A j \in DOMAIN db' :
             \/ \E k \in DOMAIN db : db[k] = db'[j]
             \/ /\ db'[j]["user_id"] = current_user'
                /\ TankOwner[db'[j]["tank_id"]] = current_user'
       /\ \A r \in returned' : r["user_id"] = current_user'
       /\ \A k \in RowsOfOthers(current_user') :
             \E j \in DOMAIN db' : db'[j] = db[k]
       /\ (test_id' \in {db[k]["id"] : k \in RowsOfOthers(current_user')}
             /\ requests' # requests)
          => /\ response' = 404
             /\ returned' = {}
             /\ db' = db
             /\ uploads' = uploads]_vars

\* another user's row has been asked for, the answer was 404 and the row and
\* its file are still there
C30_Witness ==
    /\ response = 404
    /\ \E k \in RowsOfOthers(current_user) :
          /\ db[k]["id"] = test_id
          /\ db[k]["pdf_path"] \in uploads

====
